---- MODULE Spec2Model ----
(***************************************************************************)
(* Model of the Pixie-16 SDK crate runtime and of the tools built on it.   *)
(*                                                                         *)
(* The specifications share the variables; each moves its own group:       *)
(*   SpecRole      a backplane role: request / release / not_leader        *)
(*   SpecSync      the backplane sync-wait consensus                        *)
(*   SpecPool      the buffer pool: create / destroy / request / release   *)
(*   SpecQueue     the buffer queue: push / pop / copy / compact / flush   *)
(*   SpecThreads   module_threads: worker threads and their supervisor     *)
(*   SpecWorker    list_save_worker::worker                                *)
(*   SpecError     error codes, API results and the exit code of main      *)
(*   SpecFirmware  the firmware registry: add / check / find               *)
(*   SpecCrate     crate::initialize                                       *)
(*   SpecComms     the Com-FPGA controller under the module's bus lock     *)
(*   SpecRun       execute_list_mode_run of the examples and the utility   *)
(*   SpecFifo      test_fifo_worker::worker                                *)
(*   SpecCommand   process_commands                                        *)
(*   SpecMask      the copy filter masks                                   *)
(***************************************************************************)
EXTENDS Integers, Sequences, FiniteSets, TLC

\* ------------------------------------------------------------------------
\* Bounds
\* ------------------------------------------------------------------------
\* Number of modules in the crate (module numbers are 0 .. NumModules-1).
NumModules == 2

\* Largest number of buffers and largest buffer capacity given to
\* pool::create.
MaxBuffers == 3

MaxCapacity == 2

\* Cap on the number of handles the pool issues in one behaviour.
MaxRequests == 4
\* Number of buffers of the pool that feeds the queue.
QueueBuffers == 2
\* Largest word count handed to queue::copy.
MaxCopy == 4
\* Longest list-mode period, in seconds.
MaxSeconds == 2
\* Cap on the read_list_mode polls of one worker's loop.
MaxPolls == 3
\* Most words one read_list_mode call returns.
MaxRead == 2
\* Most firmwares a registry is filled with.
MaxFirmwares == 2
\* Most modules a crate holds before no further initialize is followed.
MaxCrateModules == 3
\* Threads that call the Com-FPGA controller of one module.
NumCallers == 2
\* Register accesses of one image load.
LoadAccesses == 2
\* Sweeps of a run driver's finalize loop (max_finalize_attempts).
MaxFinalizeAttempts == 2
\* Most words a FIFO test worker is told to collect.
MaxLength == 3
\* Most handlers one command line calls.
MaxCommands == 3

\* ------------------------------------------------------------------------
\* Program constants
\* ------------------------------------------------------------------------
\* backplane::role::released, the "no leader" sentinel.
released == -1

\* hw::max_slots, the size of backplane::sync_waiters.
max_slots == 13

\* The three roles constructed by backplane::backplane().
Roles == {"wired-or-triggers", "run", "director"}

Modules == 0 .. (NumModules - 1)

VARIABLES
    label,          \* role::label of the role instance under consideration
    leader,         \* role::leader (atomic int), the leader's module number
    call,           \* module -> the module thread's call on the role
    holds,          \* history: module -> its request returned true and it
                    \* has not had a release return true since
    sync_waits,     \* backplane::sync_waits (atomic int)
    sync_waiters,   \* backplane::sync_waiters (array of bool, max_slots)
    sync_call,      \* module -> position of its sync_wait call
    sync_valid,     \* outcome of the last sync_wait_valid call
    pool_number,    \* pool::number
    pool_size,      \* pool::size
    pool_count,     \* pool::count_ (atomic)
    pool_buffers,   \* pool::buffers, the free list, front first
    buf_data,       \* buffer -> its words (empty for a buffer not allocated)
    handle,         \* buffer -> "none", "held" (a handle is in flight),
                    \* "queued" (the handle in flight is the queue's) or
                    \* "releasing" (its releaser is between clear and lock)
    pool_result,    \* outcome of the last create / destroy / request
    requests_issued,    \* history: handles returned by pool::request
    releases_completed, \* history: pool::release calls completed
    queue_buffers,  \* queue::buffers, the handles queued, front first
    queue_size,     \* queue::size_ (atomic)
    queue_count,    \* queue::count_ (atomic)
    queue_result,   \* outcome of the last queue operation; for a copy the
                    \* words of the destination
    mt_pc,          \* module_threads: where the supervisor is
    mt_t,           \* module_threads: loop index m (spawn) or t (sweep)
    mt_finished,    \* module_threads: finished
    mt_first_error, \* module_threads: first_error
    mt_worker,      \* worker -> state of its thread
    mt_promise,     \* worker -> what promises[m] holds
    mt_future_valid,\* worker -> futures[t].valid()
    mt_joined,      \* worker -> threads[t].join() has returned
    lw_pc,          \* list_save_worker: where the worker thread is
    lw_run_task,    \* list_save_worker::run_task ("unset" until assigned)
    lw_seconds,     \* list_save_worker::seconds
    lw_elapsed,     \* module_thread_worker::period.secs()
    lw_running,     \* module_thread_worker::running (atomic)
    lw_total,       \* module_thread_worker::total
    lw_written,     \* history: words appended to the output file
    lw_calls,       \* history: calls made on the module, and empty reads
    lw_stats,       \* module.run_stats as read at the end of a run task
    lw_result,      \* what the worker thread stored in its promise
    er_code,        \* the code last handed to api_result ("none" before)
    er_result,      \* what api_result returned for it
    er_thrown,      \* what reached the catch handlers of main
    er_exit,        \* how main ended and the value it returned
    fw_registry,    \* firmware::crate: module revision -> its firmwares, in order
    fw_result,      \* outcome of the last add / check / find
    cr_state,       \* crate object: "none", "constructed" or "refused" (constructor threw)
    cr_num_modules, \* crate::num_modules
    cr_modules,     \* crate::modules: the device each module is bound to (-1: none)
    cr_devices,     \* devices the bus found in the last initialize
    cr_result,      \* outcome of the last crate call
    bus_owner,      \* the module's bus lock: the caller whose bus_guard holds it, 0 if none
    co_pc,          \* caller -> where it is in comms::boot / comms::done
    co_op,          \* caller -> the call it makes or made last
    co_accesses,    \* caller -> register accesses its call in progress has made
    co_result,      \* caller -> how its last call ended
    rd_driver,      \* which execute_list_mode_run is running
    rd_pc,          \* where the run driver is
    rd_status,      \* module -> run status of its DSP
    rd_waited,      \* the driver has waited for the DSP since the start
    rd_run_status,  \* local run_status of the JSON example
    rd_polls,       \* iterations of the collection loop so far
    rd_counter,     \* finalize attempts so far
    rd_k,           \* module the finalize loop looks at next
    rd_sweep,       \* module -> what the current finalize sweep read
    rd_all_finished,\* local all_modules_finished
    rd_result,      \* what execute_list_mode_run returned
    tf_pc,          \* where test_fifo_worker::worker is
    tf_length,      \* words the worker is to collect
    tf_total,       \* words collected so far
    tf_calls,       \* calls of the module made by the worker
    tf_has_error,   \* the worker's has_error
    cp_state,       \* process_commands: running, returned or thrown
    cp_init_done,   \* local init_done
    cp_probe_done,  \* local probe_done
    cp_calls,       \* calls of initialize and of probe so far
    cp_log,         \* the handlers called, each with the calls made before it
    cf_mask,        \* the filter mask handed to the next copy
    cf_copied,      \* a copy has been made with cf_mask
    cf_selected     \* the filter groups the last copy selected

role_vars == <<label, leader, call, holds>>
sync_vars == <<sync_waits, sync_waiters, sync_call, sync_valid>>
pool_vars == <<pool_number, pool_size, pool_count, pool_buffers, buf_data,
               handle, pool_result, requests_issued, releases_completed>>
queue_vars == <<queue_buffers, queue_size, queue_count, queue_result>>
thread_vars == <<mt_pc, mt_t, mt_finished, mt_first_error, mt_worker,
                 mt_promise, mt_future_valid, mt_joined>>
worker_vars == <<lw_pc, lw_run_task, lw_seconds, lw_elapsed, lw_running,
                 lw_total, lw_written, lw_calls, lw_stats, lw_result>>
error_vars == <<er_code, er_result, er_thrown, er_exit>>
firmware_vars == <<fw_registry, fw_result>>
crate_vars == <<cr_state, cr_num_modules, cr_modules, cr_devices, cr_result>>
comms_vars == <<bus_owner, co_pc, co_op, co_accesses, co_result>>
run_vars == <<rd_driver, rd_pc, rd_status, rd_waited, rd_run_status, rd_polls, rd_counter, rd_k, rd_sweep, rd_all_finished, rd_result>>
fifo_vars == <<tf_pc, tf_length, tf_total, tf_calls, tf_has_error>>
cmd_vars == <<cp_state, cp_init_done, cp_probe_done, cp_calls, cp_log>>
mask_vars == <<cf_mask, cf_copied, cf_selected>>
vars == <<label, leader, call, holds,
          sync_waits, sync_waiters, sync_call, sync_valid,
          pool_number, pool_size, pool_count, pool_buffers, buf_data,
          handle, pool_result, requests_issued, releases_completed,
          queue_buffers, queue_size, queue_count, queue_result,
          mt_pc, mt_t, mt_finished, mt_first_error, mt_worker, mt_promise,
          mt_future_valid, mt_joined,
          lw_pc, lw_run_task, lw_seconds, lw_elapsed, lw_running,
          lw_total, lw_written, lw_calls, lw_stats, lw_result,
          er_code, er_result, er_thrown, er_exit,
          fw_registry, fw_result,
          cr_state, cr_num_modules, cr_modules, cr_devices, cr_result,
          bus_owner, co_pc, co_op, co_accesses, co_result,
          rd_driver, rd_pc, rd_status, rd_waited, rd_run_status, rd_polls, rd_counter, rd_k, rd_sweep, rd_all_finished, rd_result,
          tf_pc, tf_length, tf_total, tf_calls, tf_has_error,
          cp_state, cp_init_done, cp_probe_done, cp_calls, cp_log,
          cf_mask, cf_copied, cf_selected>>

\* ========================================================================
\* Backplane roles
\*
\* A role is one atomic integer and a label.  The backplane constructs three
\* of them; they share no state, so the model follows one role instance and
\* lets Init pick which of the three it is.
\* ========================================================================

\* std::atomic<int>::compare_exchange_strong(expected, desired): when the
\* current value equals expected the value becomes desired and the call
\* returns true; otherwise the value is left alone, expected is loaded with
\* the current value, and the call returns false.
compare_exchange_strong(current, expected, desired) ==
    IF current = expected
    THEN [value |-> desired, expected |-> expected, ok |-> TRUE]
    ELSE [value |-> current, expected |-> current, ok |-> FALSE]

\* role::request(mod): expected = released, desired = mod.number.
request_exchange(current, number) ==
    [value |-> number, expected |-> current, ok |-> current = released]

request(current, number) ==
    compare_exchange_strong(current, released, number)

\* role::release(mod): expected = mod.number, desired = released.
release_any_leader(current, number) ==
    [value |-> released, expected |-> current, ok |-> current # released]

release(current, number) ==
    compare_exchange_strong(current, number, released)

\* role::has_leader() and role::module(): loads of the atomic leader.
has_leader(current) == current # released

module(current) == current

\* role::operator!=(mod)
role_neq(current, number) == module(current) # number

\* role::not_leader(mod): has_leader() && *this != mod, where `has` is the
\* value has_leader() returned and `current` is the leader the second load
\* sees.
not_leader_without_has(has, current, number) ==
    role_neq(current, number)

not_leader(has, current, number) ==
    has /\ role_neq(current, number)

\* The call record of a module thread that has not called yet.
NoCall ==
    [op |-> "none", stage |-> "idle", ret |-> FALSE,
     expected |-> released, free |-> FALSE, retry |-> "no"]

\* A module thread enters role.request(mod), role.release(mod) or
\* role.not_leader(mod).  `expected` is the local of that name.  `free` and
\* `retry` are history: whether the role was released when the call was
\* made, and whether the call retries a request that has just returned false
\* ("lost"; "lost_race" when that request was made on a released role).
Invoke(m, op) ==
    /\ call[m].stage \in {"idle", "done"}
    /\ call' = [call EXCEPT ![m] =
                  [op |-> op, stage |-> "called", ret |-> FALSE,
                   expected |-> IF op = "release" THEN m ELSE released,
                   free |-> (op = "request" /\ leader = released),
                   retry |-> IF /\ op = "request"
                               /\ call[m].op = "request"
                               /\ call[m].stage = "done"
                               /\ ~call[m].ret
                            THEN (IF call[m].free THEN "lost_race" ELSE "lost")
                            ELSE "no"]]
    /\ UNCHANGED <<label, leader, holds>>
    /\ UNCHANGED sync_vars
    /\ UNCHANGED pool_vars
    /\ UNCHANGED queue_vars
    /\ UNCHANGED thread_vars
    /\ UNCHANGED worker_vars
    /\ UNCHANGED error_vars
    /\ UNCHANGED firmware_vars
    /\ UNCHANGED crate_vars
    /\ UNCHANGED comms_vars
    /\ UNCHANGED run_vars
    /\ UNCHANGED fifo_vars
    /\ UNCHANGED cmd_vars
    /\ UNCHANGED mask_vars

\* A request that tests the leader when it is called and stores later.
RequestCAS_test_then_set(m) ==
    /\ call[m].stage = "called"
    /\ call[m].op = "request"
    /\ leader' = IF call[m].free THEN m ELSE leader
    /\ call' = [call EXCEPT ![m].stage = "done",
                            ![m].ret = call[m].free,
                            ![m].expected = leader]
    /\ holds' = [holds EXCEPT ![m] = holds[m] \/ call[m].free]
    /\ UNCHANGED label
    /\ UNCHANGED sync_vars
    /\ UNCHANGED pool_vars
    /\ UNCHANGED queue_vars
    /\ UNCHANGED thread_vars
    /\ UNCHANGED worker_vars
    /\ UNCHANGED error_vars
    /\ UNCHANGED firmware_vars
    /\ UNCHANGED crate_vars
    /\ UNCHANGED comms_vars
    /\ UNCHANGED run_vars
    /\ UNCHANGED fifo_vars
    /\ UNCHANGED cmd_vars
    /\ UNCHANGED mask_vars

\* The compare-exchange of role::request, and its return.
RequestCAS(m) ==
    /\ call[m].stage = "called"
    /\ call[m].op = "request"
    /\ LET cas == request(leader, m)
       IN /\ leader' = cas.value
          /\ call' = [call EXCEPT ![m].stage = "done",
                                  ![m].ret = cas.ok,
                                  ![m].expected = cas.expected]
          /\ holds' = [holds EXCEPT ![m] = holds[m] \/ cas.ok]
    /\ UNCHANGED label
    /\ UNCHANGED sync_vars
    /\ UNCHANGED pool_vars
    /\ UNCHANGED queue_vars
    /\ UNCHANGED thread_vars
    /\ UNCHANGED worker_vars
    /\ UNCHANGED error_vars
    /\ UNCHANGED firmware_vars
    /\ UNCHANGED crate_vars
    /\ UNCHANGED comms_vars
    /\ UNCHANGED run_vars
    /\ UNCHANGED fifo_vars
    /\ UNCHANGED cmd_vars
    /\ UNCHANGED mask_vars

\* The compare-exchange of role::release, and its return.
ReleaseCAS(m) ==
    /\ call[m].stage = "called"
    /\ call[m].op = "release"
    /\ LET cas == release(leader, m)
       IN /\ leader' = cas.value
          /\ call' = [call EXCEPT ![m].stage = "done",
                                  ![m].ret = cas.ok,
                                  ![m].expected = cas.expected]
          /\ holds' = [holds EXCEPT ![m] = holds[m] /\ ~cas.ok]
    /\ UNCHANGED label
    /\ UNCHANGED sync_vars
    /\ UNCHANGED pool_vars
    /\ UNCHANGED queue_vars
    /\ UNCHANGED thread_vars
    /\ UNCHANGED worker_vars
    /\ UNCHANGED error_vars
    /\ UNCHANGED firmware_vars
    /\ UNCHANGED crate_vars
    /\ UNCHANGED comms_vars
    /\ UNCHANGED run_vars
    /\ UNCHANGED fifo_vars
    /\ UNCHANGED cmd_vars
    /\ UNCHANGED mask_vars

\* role::not_leader(mod), first operand: the load of has_leader().  A false
\* has_leader() short-circuits the call to return false.  The value loaded
\* is kept in `expected` (the leader the call observed).
NotLeaderHas(m) ==
    /\ call[m].stage = "called"
    /\ call[m].op = "not_leader"
    /\ call' = [call EXCEPT ![m].stage = IF has_leader(leader)
                                         THEN "has" ELSE "done",
                            ![m].ret = not_leader(FALSE, leader, m),
                            ![m].expected = leader]
    /\ UNCHANGED <<label, leader, holds>>
    /\ UNCHANGED sync_vars
    /\ UNCHANGED pool_vars
    /\ UNCHANGED queue_vars
    /\ UNCHANGED thread_vars
    /\ UNCHANGED worker_vars
    /\ UNCHANGED error_vars
    /\ UNCHANGED firmware_vars
    /\ UNCHANGED crate_vars
    /\ UNCHANGED comms_vars
    /\ UNCHANGED run_vars
    /\ UNCHANGED fifo_vars
    /\ UNCHANGED cmd_vars
    /\ UNCHANGED mask_vars

\* role::not_leader(mod), second operand: the load of operator!=.
NotLeaderNeq(m) ==
    /\ call[m].stage = "has"
    /\ call[m].op = "not_leader"
    /\ call' = [call EXCEPT ![m].stage = "done",
                            ![m].ret = not_leader(TRUE, leader, m)]
    /\ UNCHANGED <<label, leader, holds>>
    /\ UNCHANGED sync_vars
    /\ UNCHANGED pool_vars
    /\ UNCHANGED queue_vars
    /\ UNCHANGED thread_vars
    /\ UNCHANGED worker_vars
    /\ UNCHANGED error_vars
    /\ UNCHANGED firmware_vars
    /\ UNCHANGED crate_vars
    /\ UNCHANGED comms_vars
    /\ UNCHANGED run_vars
    /\ UNCHANGED fifo_vars
    /\ UNCHANGED cmd_vars
    /\ UNCHANGED mask_vars

RoleNext ==
    \/ \E m \in Modules : \E op \in {"request", "release", "not_leader"} :
         Invoke(m, op)
    \/ \E m \in Modules : RequestCAS(m)
    \/ \E m \in Modules : ReleaseCAS(m)
    \/ \E m \in Modules : NotLeaderHas(m)
    \/ \E m \in Modules : NotLeaderNeq(m)

\* ========================================================================
\* Sync-wait consensus
\* ========================================================================

\* Number of true entries of an array of bool (std::array<bool, N>).
RECURSIVE popcount_upto(_, _)
popcount_upto(waiters, n) ==
    IF n = 0 THEN 0
    ELSE popcount_upto(waiters, n - 1) + (IF waiters[n - 1] THEN 1 ELSE 0)

popcount(waiters) == popcount_upto(waiters, max_slots)

\* Values a caller passes as SYNCH_WAIT (param::value_type).
SynchWaitValues == {0, 1, 2}

SyncIdle == [stage |-> "idle", active |-> FALSE, error |-> "none"]

\* backplane::sync_wait(mod, synch_wait), up to the atomic ++sync_waits or
\* --sync_waits.  sync_waiters[mod.number] is written by mod's thread only,
\* so its read belongs to the same step.  A call that finds the slot already
\* in the wanted state returns at once.
sync_wait_count_up_only(waits, active) ==
    waits + 1

sync_wait_count(waits, active) ==
    IF active THEN waits + 1 ELSE waits - 1

SyncWaitCount(m, synch_wait) ==
    /\ sync_call[m].stage = "idle"
    /\ LET synch_wait_active == (synch_wait = 1)
       IN IF synch_wait_active # sync_waiters[m]
          THEN /\ sync_waits' = sync_wait_count(sync_waits, synch_wait_active)
               /\ sync_call' = [sync_call EXCEPT ![m] =
                                  [stage |-> "set",
                                   active |-> synch_wait_active,
                                   error |-> "none"]]
          ELSE /\ sync_call' = [sync_call EXCEPT ![m] = SyncIdle]
               /\ UNCHANGED sync_waits
    /\ UNCHANGED <<sync_waiters, sync_valid>>
    /\ UNCHANGED role_vars
    /\ UNCHANGED pool_vars
    /\ UNCHANGED queue_vars
    /\ UNCHANGED thread_vars
    /\ UNCHANGED worker_vars
    /\ UNCHANGED error_vars
    /\ UNCHANGED firmware_vars
    /\ UNCHANGED crate_vars
    /\ UNCHANGED comms_vars
    /\ UNCHANGED run_vars
    /\ UNCHANGED fifo_vars
    /\ UNCHANGED cmd_vars
    /\ UNCHANGED mask_vars

\* sync_waiters[mod.number] = synch_wait_active
SyncWaitSet(m) ==
    /\ sync_call[m].stage = "set"
    /\ sync_waiters' = [sync_waiters EXCEPT ![m] = sync_call[m].active]
    /\ sync_call' = [sync_call EXCEPT ![m].stage = "check"]
    /\ UNCHANGED <<sync_waits, sync_valid>>
    /\ UNCHANGED role_vars
    /\ UNCHANGED pool_vars
    /\ UNCHANGED queue_vars
    /\ UNCHANGED thread_vars
    /\ UNCHANGED worker_vars
    /\ UNCHANGED error_vars
    /\ UNCHANGED firmware_vars
    /\ UNCHANGED crate_vars
    /\ UNCHANGED comms_vars
    /\ UNCHANGED run_vars
    /\ UNCHANGED fifo_vars
    /\ UNCHANGED cmd_vars
    /\ UNCHANGED mask_vars

\* The range check: sw = sync_waits.load(); sw < 0 || sw > size throws
\* internal_failure.
sync_wait_range_error(sw) ==
    sw < 0 \/ sw > max_slots

SyncWaitCheck(m) ==
    /\ sync_call[m].stage = "check"
    /\ sync_call' = [sync_call EXCEPT ![m] =
                       [stage |-> "idle", active |-> FALSE,
                        error |-> IF sync_wait_range_error(sync_waits)
                                  THEN "internal_failure" ELSE "none"]]
    /\ UNCHANGED <<sync_waits, sync_waiters, sync_valid>>
    /\ UNCHANGED role_vars
    /\ UNCHANGED pool_vars
    /\ UNCHANGED queue_vars
    /\ UNCHANGED thread_vars
    /\ UNCHANGED worker_vars
    /\ UNCHANGED error_vars
    /\ UNCHANGED firmware_vars
    /\ UNCHANGED crate_vars
    /\ UNCHANGED comms_vars
    /\ UNCHANGED run_vars
    /\ UNCHANGED fifo_vars
    /\ UNCHANGED cmd_vars
    /\ UNCHANGED mask_vars

\* backplane::sync_wait_valid(): waits = sync_waits.load(); throws
\* module_invalid_operation unless waits is 0 or sync_waiters.size().
sync_wait_valid_nonzero_only(waits) ==
    IF waits # 0 /\ waits > max_slots
    THEN "module_invalid_operation"
    ELSE "success"

sync_wait_valid(waits) ==
    IF waits # 0 /\ waits # max_slots
    THEN "module_invalid_operation"
    ELSE "success"

SyncWaitValid ==
    /\ sync_valid' = sync_wait_valid(sync_waits)
    /\ UNCHANGED <<sync_waits, sync_waiters, sync_call>>
    /\ UNCHANGED role_vars
    /\ UNCHANGED pool_vars
    /\ UNCHANGED queue_vars
    /\ UNCHANGED thread_vars
    /\ UNCHANGED worker_vars
    /\ UNCHANGED error_vars
    /\ UNCHANGED firmware_vars
    /\ UNCHANGED crate_vars
    /\ UNCHANGED comms_vars
    /\ UNCHANGED run_vars
    /\ UNCHANGED fifo_vars
    /\ UNCHANGED cmd_vars
    /\ UNCHANGED mask_vars

SyncNext ==
    \/ \E m \in Modules : \E v \in SynchWaitValues : SyncWaitCount(m, v)
    \/ \E m \in Modules : SyncWaitSet(m)
    \/ \E m \in Modules : SyncWaitCheck(m)
    \/ SyncWaitValid

\* ========================================================================
\* Buffer pool
\* ========================================================================
BufIds == 1 .. MaxBuffers

\* The buffers `new buffer` yields in pool::create, in allocation order.
RECURSIVE push_front_all(_, _)
push_front_all(list, n) ==
    IF n = 0 THEN list
    ELSE <<n>> \o push_front_all(list, n - 1)

\* pool::empty()
pool_empty(count) == count = 0

PoolResult(op, code, buf) == [op |-> op, code |-> code, buf |-> buf]

\* pool::create(number_, size_), under the pool lock.
PoolCreate_no_check(number_, size_) ==
    /\ pool_number' = number_
    /\ pool_size' = size_
    /\ pool_buffers' = push_front_all(pool_buffers, number_)
    /\ buf_data' = [b \in BufIds |-> <<>>]
    /\ pool_count' = number_
    /\ pool_result' = PoolResult("create", "success", 0)
    /\ UNCHANGED <<handle, requests_issued, releases_completed>>
    /\ UNCHANGED role_vars
    /\ UNCHANGED sync_vars
    /\ UNCHANGED queue_vars
    /\ UNCHANGED thread_vars
    /\ UNCHANGED worker_vars
    /\ UNCHANGED error_vars
    /\ UNCHANGED firmware_vars
    /\ UNCHANGED crate_vars
    /\ UNCHANGED comms_vars
    /\ UNCHANGED run_vars
    /\ UNCHANGED fifo_vars
    /\ UNCHANGED cmd_vars
    /\ UNCHANGED mask_vars

PoolCreate_count_zero(number_, size_) ==
    IF pool_number # 0
    THEN /\ pool_result' = PoolResult("create", "buffer_pool_not_empty", 0)
         /\ UNCHANGED <<pool_number, pool_size, pool_count, pool_buffers,
                        buf_data, handle, requests_issued, releases_completed>>
         /\ UNCHANGED role_vars
         /\ UNCHANGED sync_vars
         /\ UNCHANGED queue_vars
         /\ UNCHANGED thread_vars
         /\ UNCHANGED worker_vars
         /\ UNCHANGED error_vars
         /\ UNCHANGED firmware_vars
         /\ UNCHANGED crate_vars
         /\ UNCHANGED comms_vars
         /\ UNCHANGED run_vars
         /\ UNCHANGED fifo_vars
         /\ UNCHANGED cmd_vars
         /\ UNCHANGED mask_vars
    ELSE /\ pool_number' = number_
         /\ pool_size' = size_
         /\ pool_buffers' = push_front_all(pool_buffers, number_)
         /\ buf_data' = [b \in BufIds |-> <<>>]
         /\ pool_count' = 0
         /\ pool_result' = PoolResult("create", "success", 0)
         /\ UNCHANGED <<handle, requests_issued, releases_completed>>
         /\ UNCHANGED role_vars
         /\ UNCHANGED sync_vars
         /\ UNCHANGED queue_vars
         /\ UNCHANGED thread_vars
         /\ UNCHANGED worker_vars
         /\ UNCHANGED error_vars
         /\ UNCHANGED firmware_vars
         /\ UNCHANGED crate_vars
         /\ UNCHANGED comms_vars
         /\ UNCHANGED run_vars
         /\ UNCHANGED fifo_vars
         /\ UNCHANGED cmd_vars
         /\ UNCHANGED mask_vars

PoolCreate(number_, size_) ==
    IF pool_number # 0
    THEN /\ pool_result' = PoolResult("create", "buffer_pool_not_empty", 0)
         /\ UNCHANGED <<pool_number, pool_size, pool_count, pool_buffers,
                        buf_data, handle, requests_issued, releases_completed>>
         /\ UNCHANGED role_vars
         /\ UNCHANGED sync_vars
         /\ UNCHANGED queue_vars
         /\ UNCHANGED thread_vars
         /\ UNCHANGED worker_vars
         /\ UNCHANGED error_vars
         /\ UNCHANGED firmware_vars
         /\ UNCHANGED crate_vars
         /\ UNCHANGED comms_vars
         /\ UNCHANGED run_vars
         /\ UNCHANGED fifo_vars
         /\ UNCHANGED cmd_vars
         /\ UNCHANGED mask_vars
    ELSE /\ pool_number' = number_
         /\ pool_size' = size_
         /\ pool_buffers' = push_front_all(pool_buffers, number_)
         /\ buf_data' = [b \in BufIds |-> <<>>]
         /\ pool_count' = number_
         /\ pool_result' = PoolResult("create", "success", 0)
         /\ UNCHANGED <<handle, requests_issued, releases_completed>>
         /\ UNCHANGED role_vars
         /\ UNCHANGED sync_vars
         /\ UNCHANGED queue_vars
         /\ UNCHANGED thread_vars
         /\ UNCHANGED worker_vars
         /\ UNCHANGED error_vars
         /\ UNCHANGED firmware_vars
         /\ UNCHANGED crate_vars
         /\ UNCHANGED comms_vars
         /\ UNCHANGED run_vars
         /\ UNCHANGED fifo_vars
         /\ UNCHANGED cmd_vars
         /\ UNCHANGED mask_vars

\* pool::destroy(), under the pool lock.
PoolDestroy_no_busy ==
    /\ IF pool_number > 0
       THEN /\ pool_buffers' = <<>>
            /\ buf_data' = [b \in BufIds |-> <<>>]
            /\ pool_number' = 0
            /\ pool_size' = 0
            /\ pool_count' = 0
            /\ pool_result' = PoolResult("destroy", "success", 0)
       ELSE /\ pool_result' = PoolResult("destroy", "success", 0)
            /\ UNCHANGED <<pool_number, pool_size, pool_count,
                           pool_buffers, buf_data>>
    /\ UNCHANGED <<handle, requests_issued, releases_completed>>
    /\ UNCHANGED role_vars
    /\ UNCHANGED sync_vars
    /\ UNCHANGED queue_vars
    /\ UNCHANGED thread_vars
    /\ UNCHANGED worker_vars
    /\ UNCHANGED error_vars
    /\ UNCHANGED firmware_vars
    /\ UNCHANGED crate_vars
    /\ UNCHANGED comms_vars
    /\ UNCHANGED run_vars
    /\ UNCHANGED fifo_vars
    /\ UNCHANGED cmd_vars
    /\ UNCHANGED mask_vars

PoolDestroy_keeps_buffers ==
    /\ IF pool_number > 0
       THEN IF pool_count # pool_number
            THEN /\ pool_result' = PoolResult("destroy", "buffer_pool_busy", 0)
                 /\ UNCHANGED <<pool_number, pool_size, pool_count,
                                pool_buffers, buf_data>>
            ELSE /\ pool_number' = 0
                 /\ pool_size' = 0
                 /\ pool_count' = 0
                 /\ pool_result' = PoolResult("destroy", "success", 0)
                 /\ UNCHANGED <<pool_buffers, buf_data>>
       ELSE /\ pool_result' = PoolResult("destroy", "success", 0)
            /\ UNCHANGED <<pool_number, pool_size, pool_count,
                           pool_buffers, buf_data>>
    /\ UNCHANGED <<handle, requests_issued, releases_completed>>
    /\ UNCHANGED role_vars
    /\ UNCHANGED sync_vars
    /\ UNCHANGED queue_vars
    /\ UNCHANGED thread_vars
    /\ UNCHANGED worker_vars
    /\ UNCHANGED error_vars
    /\ UNCHANGED firmware_vars
    /\ UNCHANGED crate_vars
    /\ UNCHANGED comms_vars
    /\ UNCHANGED run_vars
    /\ UNCHANGED fifo_vars
    /\ UNCHANGED cmd_vars
    /\ UNCHANGED mask_vars

PoolDestroy ==
    /\ IF pool_number > 0
       THEN IF pool_count # pool_number
            THEN /\ pool_result' = PoolResult("destroy", "buffer_pool_busy", 0)
                 /\ UNCHANGED <<pool_number, pool_size, pool_count,
                                pool_buffers, buf_data>>
            ELSE /\ pool_buffers' = <<>>
                 /\ buf_data' = [b \in BufIds |-> <<>>]
                 /\ pool_number' = 0
                 /\ pool_size' = 0
                 /\ pool_count' = 0
                 /\ pool_result' = PoolResult("destroy", "success", 0)
       ELSE /\ pool_result' = PoolResult("destroy", "success", 0)
            /\ UNCHANGED <<pool_number, pool_size, pool_count,
                           pool_buffers, buf_data>>
    /\ UNCHANGED <<handle, requests_issued, releases_completed>>
    /\ UNCHANGED role_vars
    /\ UNCHANGED sync_vars
    /\ UNCHANGED queue_vars
    /\ UNCHANGED thread_vars
    /\ UNCHANGED worker_vars
    /\ UNCHANGED error_vars
    /\ UNCHANGED firmware_vars
    /\ UNCHANGED crate_vars
    /\ UNCHANGED comms_vars
    /\ UNCHANGED run_vars
    /\ UNCHANGED fifo_vars
    /\ UNCHANGED cmd_vars
    /\ UNCHANGED mask_vars

\* pool::request(), under the pool lock: the front of the free list leaves
\* in a handle whose deleter is the pool's releaser.
PoolRequest ==
    /\ IF pool_empty(pool_count)
       THEN /\ pool_result' = PoolResult("request", "buffer_pool_empty", 0)
            /\ UNCHANGED <<pool_count, pool_buffers, handle, requests_issued>>
       ELSE /\ requests_issued < MaxRequests
            /\ pool_count' = pool_count - 1
            /\ pool_buffers' = Tail(pool_buffers)
            /\ handle' = [handle EXCEPT ![Head(pool_buffers)] = "held"]
            /\ pool_result' =
                 PoolResult("request", "success", Head(pool_buffers))
            /\ requests_issued' = requests_issued + 1
    /\ UNCHANGED <<pool_number, pool_size, buf_data, releases_completed>>
    /\ UNCHANGED role_vars
    /\ UNCHANGED sync_vars
    /\ UNCHANGED queue_vars
    /\ UNCHANGED thread_vars
    /\ UNCHANGED worker_vars
    /\ UNCHANGED error_vars
    /\ UNCHANGED firmware_vars
    /\ UNCHANGED crate_vars
    /\ UNCHANGED comms_vars
    /\ UNCHANGED run_vars
    /\ UNCHANGED fifo_vars
    /\ UNCHANGED cmd_vars
    /\ UNCHANGED mask_vars

\* The word the holder of buffer b writes at position i: a 32-bit value
\* that tells buffers and positions apart and is not a single byte.
buffer_word(b, i) == 256 * b + i

\* The holder of a handle resizes its buffer to n words (within the
\* capacity reserved by pool::create) and fills it.
HandleFill(b, n) ==
    /\ handle[b] = "held"
    /\ n <= pool_size
    /\ buf_data' = [buf_data EXCEPT ![b] = [i \in 1 .. n |-> buffer_word(b, i)]]
    /\ UNCHANGED <<pool_number, pool_size, pool_count, pool_buffers, handle,
                   pool_result, requests_issued, releases_completed>>
    /\ UNCHANGED role_vars
    /\ UNCHANGED sync_vars
    /\ UNCHANGED queue_vars
    /\ UNCHANGED thread_vars
    /\ UNCHANGED worker_vars
    /\ UNCHANGED error_vars
    /\ UNCHANGED firmware_vars
    /\ UNCHANGED crate_vars
    /\ UNCHANGED comms_vars
    /\ UNCHANGED run_vars
    /\ UNCHANGED fifo_vars
    /\ UNCHANGED cmd_vars
    /\ UNCHANGED mask_vars

\* The last reference of a handle goes: pool::releaser::operator() calls
\* pool::release(buf), which clears the buffer before it takes the lock.
PoolReleaseClear_no_clear(b) ==
    /\ handle[b] = "held"
    /\ handle' = [handle EXCEPT ![b] = "releasing"]
    /\ UNCHANGED <<pool_number, pool_size, pool_count, pool_buffers, buf_data,
                   pool_result, requests_issued, releases_completed>>
    /\ UNCHANGED role_vars
    /\ UNCHANGED sync_vars
    /\ UNCHANGED queue_vars
    /\ UNCHANGED thread_vars
    /\ UNCHANGED worker_vars
    /\ UNCHANGED error_vars
    /\ UNCHANGED firmware_vars
    /\ UNCHANGED crate_vars
    /\ UNCHANGED comms_vars
    /\ UNCHANGED run_vars
    /\ UNCHANGED fifo_vars
    /\ UNCHANGED cmd_vars
    /\ UNCHANGED mask_vars

PoolReleaseClear(b) ==
    /\ handle[b] = "held"
    /\ buf_data' = [buf_data EXCEPT ![b] = <<>>]
    /\ handle' = [handle EXCEPT ![b] = "releasing"]
    /\ UNCHANGED <<pool_number, pool_size, pool_count, pool_buffers,
                   pool_result, requests_issued, releases_completed>>
    /\ UNCHANGED role_vars
    /\ UNCHANGED sync_vars
    /\ UNCHANGED queue_vars
    /\ UNCHANGED thread_vars
    /\ UNCHANGED worker_vars
    /\ UNCHANGED error_vars
    /\ UNCHANGED firmware_vars
    /\ UNCHANGED crate_vars
    /\ UNCHANGED comms_vars
    /\ UNCHANGED run_vars
    /\ UNCHANGED fifo_vars
    /\ UNCHANGED cmd_vars
    /\ UNCHANGED mask_vars

\* pool::release(buf), under the pool lock: push_front and count_++.
PoolReleasePush_no_count(b) ==
    /\ handle[b] = "releasing"
    /\ pool_buffers' = <<b>> \o pool_buffers
    /\ handle' = [handle EXCEPT ![b] = "none"]
    /\ releases_completed' = releases_completed + 1
    /\ UNCHANGED <<pool_number, pool_size, pool_count, buf_data,
                   pool_result, requests_issued>>
    /\ UNCHANGED role_vars
    /\ UNCHANGED sync_vars
    /\ UNCHANGED queue_vars
    /\ UNCHANGED thread_vars
    /\ UNCHANGED worker_vars
    /\ UNCHANGED error_vars
    /\ UNCHANGED firmware_vars
    /\ UNCHANGED crate_vars
    /\ UNCHANGED comms_vars
    /\ UNCHANGED run_vars
    /\ UNCHANGED fifo_vars
    /\ UNCHANGED cmd_vars
    /\ UNCHANGED mask_vars

PoolReleasePush(b) ==
    /\ handle[b] = "releasing"
    /\ pool_buffers' = <<b>> \o pool_buffers
    /\ pool_count' = pool_count + 1
    /\ handle' = [handle EXCEPT ![b] = "none"]
    /\ releases_completed' = releases_completed + 1
    /\ UNCHANGED <<pool_number, pool_size, buf_data,
                   pool_result, requests_issued>>
    /\ UNCHANGED role_vars
    /\ UNCHANGED sync_vars
    /\ UNCHANGED queue_vars
    /\ UNCHANGED thread_vars
    /\ UNCHANGED worker_vars
    /\ UNCHANGED error_vars
    /\ UNCHANGED firmware_vars
    /\ UNCHANGED crate_vars
    /\ UNCHANGED comms_vars
    /\ UNCHANGED run_vars
    /\ UNCHANGED fifo_vars
    /\ UNCHANGED cmd_vars
    /\ UNCHANGED mask_vars

PoolNext ==
    \/ \E n \in 0 .. MaxBuffers : \E c \in 1 .. MaxCapacity : PoolCreate(n, c)
    \/ PoolDestroy
    \/ PoolRequest
    \/ \E b \in BufIds : \E n \in 0 .. MaxCapacity : HandleFill(b, n)
    \/ \E b \in BufIds : PoolReleaseClear(b)
    \/ \E b \in BufIds : PoolReleasePush(b)

\* ========================================================================
\* Buffer queue
\*
\* Every queue operation runs under the queue lock.  The queue's handle is
\* taken to be the only reference to a queued buffer, so a handle the queue
\* erases is released to the pool (pool::releaser) within the operation.
\* ========================================================================

\* sizeof(buffer_value): the bytes of one word of a buffer.
word_bytes == 4

\* The outcome of a queue operation; for a copy the count asked for and the
\* destination words afterwards.
QueueResult(op, code, count, to) ==
    [op |-> op, code |-> code, count |-> count, to |-> to]

\* The queue has met undefined behaviour: nothing is known of it afterwards.
QueueUndefined == queue_result.code = "undefined"

RECURSIVE reverse(_)
reverse(list) ==
    IF list = <<>> THEN <<>> ELSE reverse(Tail(list)) \o <<Head(list)>>

\* The buffers at positions first .. last of a list.
range_of(list, first, last) == {list[i] : i \in first .. last}

\* The queue erases the handles `erased` (in that order): each is the last
\* reference, so pool::release clears the buffer and pushes it on the front
\* of the free list.
ReleaseErased(erased, data) ==
    /\ buf_data' = [b \in BufIds |->
                      IF b \in range_of(erased, 1, Len(erased))
                      THEN <<>> ELSE data[b]]
    /\ handle' = [b \in BufIds |->
                    IF b \in range_of(erased, 1, Len(erased))
                    THEN "none" ELSE handle[b]]
    /\ pool_buffers' = reverse(erased) \o pool_buffers
    /\ pool_count' = pool_count + Len(erased)
    /\ releases_completed' = releases_completed + Len(erased)

\* queue::push(buf): a buffer with no words is not queued.
QueuePush(b) ==
    /\ ~QueueUndefined
    /\ handle[b] = "held"
    /\ IF Len(buf_data[b]) > 0
       THEN /\ queue_buffers' = Append(queue_buffers, b)
            /\ queue_size' = queue_size + Len(buf_data[b])
            /\ queue_count' = queue_count + 1
            /\ handle' = [handle EXCEPT ![b] = "queued"]
       ELSE UNCHANGED <<queue_buffers, queue_size, queue_count, handle>>
    /\ queue_result' = QueueResult("push", "success", 0, <<>>)
    /\ UNCHANGED <<pool_number, pool_size, pool_count, pool_buffers, buf_data,
                   pool_result, requests_issued, releases_completed>>
    /\ UNCHANGED role_vars
    /\ UNCHANGED sync_vars
    /\ UNCHANGED thread_vars
    /\ UNCHANGED worker_vars
    /\ UNCHANGED error_vars
    /\ UNCHANGED firmware_vars
    /\ UNCHANGED crate_vars
    /\ UNCHANGED comms_vars
    /\ UNCHANGED run_vars
    /\ UNCHANGED fifo_vars
    /\ UNCHANGED cmd_vars
    /\ UNCHANGED mask_vars

\* queue::pop(): front() and pop_front() with no test for an empty queue;
\* on an empty deque they are undefined.
QueuePop ==
    /\ ~QueueUndefined
    /\ IF queue_buffers # <<>>
       THEN /\ queue_buffers' = Tail(queue_buffers)
            /\ queue_size' = queue_size - Len(buf_data[Head(queue_buffers)])
            /\ queue_count' = queue_count - 1
            /\ handle' = [handle EXCEPT ![Head(queue_buffers)] = "held"]
            /\ queue_result' = QueueResult("pop", "success", 0, <<>>)
       ELSE /\ queue_result' = QueueResult("pop", "undefined", 0, <<>>)
            /\ UNCHANGED <<queue_buffers, queue_size, queue_count, handle>>
    /\ UNCHANGED <<pool_number, pool_size, pool_count, pool_buffers, buf_data,
                   pool_result, requests_issued, releases_completed>>
    /\ UNCHANGED role_vars
    /\ UNCHANGED sync_vars
    /\ UNCHANGED thread_vars
    /\ UNCHANGED worker_vars
    /\ UNCHANGED error_vars
    /\ UNCHANGED firmware_vars
    /\ UNCHANGED crate_vars
    /\ UNCHANGED comms_vars
    /\ UNCHANGED run_vars
    /\ UNCHANGED fifo_vars
    /\ UNCHANGED cmd_vars
    /\ UNCHANGED mask_vars

\* 256^n
RECURSIVE byte_power(_)
byte_power(n) == IF n = 0 THEN 1 ELSE 256 * byte_power(n - 1)

\* std::memcpy(to + pos, src, nbytes) on a little-endian host: whole words
\* first, then the low bytes of the next word.
memcpy(to, pos, src, nbytes) ==
    LET full == nbytes \div word_bytes
        rem == nbytes % word_bytes
    IN [k \in 1 .. Len(to) |->
          IF k > pos /\ k <= pos + full
          THEN src[k - pos]
          ELSE IF rem > 0 /\ k = pos + full + 1
               THEN (src[full + 1] % byte_power(rem))
                    + (to[k] - (to[k] % byte_power(rem)))
               ELSE to[k]]

\* The loop of queue::copy_unprotected.  st.from_bi is the position of the
\* iterator from_bi, st.pos the words the pointer `to` has advanced.
RECURSIVE copy_loop(_)
copy_loop(st) ==
    IF st.to_move > 0 /\ st.from_bi <= Len(st.buffers)
    THEN LET from == st.buffers[st.from_bi]
             words == st.data[from]
             n == Len(words)
         IN IF st.to_move >= n
            THEN copy_loop([st EXCEPT
                   !.to = memcpy(st.to, st.pos, words, n * word_bytes),
                   !.pos = st.pos + n,
                   !.to_move = st.to_move - n,
                   !.size = st.size - n,
                   !.count = st.count - 1,
                   !.data = [st.data EXCEPT ![from] = <<>>],
                   !.from_bi = st.from_bi + 1])
            ELSE LET rest == SubSeq(words, st.to_move + 1, n)
                     to_move_after == 0
                 IN copy_loop([st EXCEPT
                      !.to = memcpy(st.to, st.pos, words, st.to_move),
                      !.data = [st.data EXCEPT ![from] = rest],
                      !.pos = st.pos + Len(rest),
                      !.to_move = to_move_after,
                      !.size = st.size - to_move_after,
                      !.from_bi = st.from_bi + 1])
    ELSE st

copy_unprotected_no_check(buffers, data, size, count_, to, count) ==
    LET st == copy_loop([buffers |-> buffers, data |-> data,
                         size |-> size, count |-> count_, to |-> to,
                         pos |-> 0, to_move |-> count, from_bi |-> 1])
    IN [code |-> "success",
        buffers |-> SubSeq(buffers, st.from_bi, Len(buffers)),
        erased |-> SubSeq(buffers, 1, st.from_bi - 1),
        data |-> st.data, size |-> st.size, count |-> st.count,
        to |-> st.to]

\* queue::copy_unprotected(to, count) on the destination words `to`.
copy_unprotected(buffers, data, size, count_, to, count) ==
    IF count > size
    THEN [code |-> "buffer_pool_not_enough", buffers |-> buffers,
          erased |-> <<>>, data |-> data, size |-> size, count |-> count_,
          to |-> to]
    ELSE LET st == copy_loop([buffers |-> buffers, data |-> data,
                              size |-> size, count |-> count_, to |-> to,
                              pos |-> 0, to_move |-> count, from_bi |-> 1])
         IN [code |-> "success",
             buffers |-> SubSeq(buffers, st.from_bi, Len(buffers)),
             erased |-> SubSeq(buffers, 1, st.from_bi - 1),
             data |-> st.data, size |-> st.size, count |-> st.count,
             to |-> st.to]

\* A destination of n words the caller has zeroed.
zeroed(n) == [k \in 1 .. n |-> 0]

\* The state change of a copy into the destination `to` of `count` words.
QueueCopied(to, count) ==
    LET out == copy_unprotected(queue_buffers, buf_data, queue_size,
                                queue_count, to, count)
    IN /\ queue_buffers' = out.buffers
       /\ queue_size' = out.size
       /\ queue_count' = out.count
       /\ queue_result' = QueueResult("copy", out.code, count, out.to)
       /\ ReleaseErased(out.erased, out.data)

\* queue::copy(to, count) to a pointer.
QueueCopyPtr(count) ==
    /\ ~QueueUndefined
    /\ QueueCopied(zeroed(count), count)
    /\ UNCHANGED <<pool_number, pool_size, pool_result, requests_issued>>
    /\ UNCHANGED role_vars
    /\ UNCHANGED sync_vars
    /\ UNCHANGED thread_vars
    /\ UNCHANGED worker_vars
    /\ UNCHANGED error_vars
    /\ UNCHANGED firmware_vars
    /\ UNCHANGED crate_vars
    /\ UNCHANGED comms_vars
    /\ UNCHANGED run_vars
    /\ UNCHANGED fifo_vars
    /\ UNCHANGED cmd_vars
    /\ UNCHANGED mask_vars

\* queue::copy(buffer& to): a destination of size 0 takes all the data and
\* is resized to queue::size_.
QueueCopyBuffer(to_size) ==
    /\ ~QueueUndefined
    /\ LET count == IF to_size = 0 THEN queue_size ELSE to_size
       IN QueueCopied(zeroed(count), count)
    /\ UNCHANGED <<pool_number, pool_size, pool_result, requests_issued>>
    /\ UNCHANGED role_vars
    /\ UNCHANGED sync_vars
    /\ UNCHANGED thread_vars
    /\ UNCHANGED worker_vars
    /\ UNCHANGED error_vars
    /\ UNCHANGED firmware_vars
    /\ UNCHANGED crate_vars
    /\ UNCHANGED comms_vars
    /\ UNCHANGED run_vars
    /\ UNCHANGED fifo_vars
    /\ UNCHANGED cmd_vars
    /\ UNCHANGED mask_vars

\* The inner loop of queue::compact: buffers after to_bi are moved into the
\* free words of the buffer at to_bi.  erase_from = 0 stands for
\* buffers.end().
RECURSIVE compact_fill(_)
compact_fill(st) ==
    IF st.to_move > 0 /\ st.from_bi <= Len(st.buffers)
    THEN LET to == st.buffers[st.to_bi]
             from == st.buffers[st.from_bi]
             words == st.data[from]
             n == Len(words)
         IN IF st.to_move >= n
            THEN compact_fill([st EXCEPT
                   !.data = [st.data EXCEPT ![to] = st.data[to] \o words,
                                            ![from] = <<>>],
                   !.to_move = st.to_move - n,
                   !.erase_from = IF st.erase_from = 0
                                  THEN st.from_bi ELSE st.erase_from,
                   !.from_bi = st.from_bi + 1,
                   !.erase_to = st.from_bi + 1,
                   !.count = st.count - 1])
            ELSE compact_fill([st EXCEPT
                   !.data = [st.data EXCEPT
                               ![to] = st.data[to]
                                       \o SubSeq(words, 1, st.to_move),
                               ![from] = SubSeq(words, st.to_move + 1, n)],
                   !.to_move = 0])
    ELSE st

\* The outer loops of queue::compact from the buffer at to_bi on; after an
\* erase the scan starts again at the first buffer (rerun).
RECURSIVE compact_run(_, _, _, _, _, _)
compact_run(buffers, data, count_, erased, to_bi, capacity) ==
    IF to_bi > Len(buffers)
    THEN [buffers |-> buffers, data |-> data, count |-> count_,
          erased |-> erased]
    ELSE IF capacity - Len(data[buffers[to_bi]]) > 0
         THEN LET st == compact_fill(
                    [buffers |-> buffers, data |-> data, count |-> count_,
                     to_bi |-> to_bi, from_bi |-> to_bi + 1,
                     to_move |-> capacity - Len(data[buffers[to_bi]]),
                     erase_from |-> 0, erase_to |-> 0])
              IN IF st.erase_from # 0
                 THEN compact_run(
                        SubSeq(buffers, 1, st.erase_from - 1)
                          \o SubSeq(buffers, st.erase_to, Len(buffers)),
                        st.data, st.count,
                        erased \o SubSeq(buffers, st.erase_from,
                                         st.erase_to - 1),
                        1, capacity)
                 ELSE compact_run(buffers, st.data, st.count, erased,
                                  to_bi + 1, capacity)
         ELSE compact_run(buffers, data, count_, erased, to_bi + 1, capacity)

compact_over_capacity(buffers, data, count_, capacity) ==
    compact_run(buffers, data, count_, <<>>, 1, capacity + 1)

\* queue::compact() of a queue whose buffers have `capacity` words each.
compact(buffers, data, count_, capacity) ==
    compact_run(buffers, data, count_, <<>>, 1, capacity)

\* The words a list of buffers holds.
RECURSIVE words_held(_, _)
words_held(buffers, data) ==
    IF buffers = <<>> THEN 0
    ELSE Len(data[Head(buffers)]) + words_held(Tail(buffers), data)

QueueCompact_shrinks_size ==
    /\ ~QueueUndefined
    /\ LET out == compact(queue_buffers, buf_data, queue_count, pool_size)
       IN /\ queue_buffers' = out.buffers
          /\ queue_count' = out.count
          /\ queue_size' = queue_size - words_held(out.erased, buf_data)
          /\ ReleaseErased(out.erased, out.data)
    /\ queue_result' = QueueResult("compact", "success", 0, <<>>)
    /\ UNCHANGED <<pool_number, pool_size, pool_result, requests_issued>>
    /\ UNCHANGED role_vars
    /\ UNCHANGED sync_vars
    /\ UNCHANGED thread_vars
    /\ UNCHANGED worker_vars
    /\ UNCHANGED error_vars
    /\ UNCHANGED firmware_vars
    /\ UNCHANGED crate_vars
    /\ UNCHANGED comms_vars
    /\ UNCHANGED run_vars
    /\ UNCHANGED fifo_vars
    /\ UNCHANGED cmd_vars
    /\ UNCHANGED mask_vars

\* queue::compact(): size_ is not touched.
QueueCompact ==
    /\ ~QueueUndefined
    /\ LET out == compact(queue_buffers, buf_data, queue_count, pool_size)
       IN /\ queue_buffers' = out.buffers
          /\ queue_count' = out.count
          /\ ReleaseErased(out.erased, out.data)
    /\ queue_result' = QueueResult("compact", "success", 0, <<>>)
    /\ UNCHANGED <<queue_size,
                   pool_number, pool_size, pool_result, requests_issued>>
    /\ UNCHANGED role_vars
    /\ UNCHANGED sync_vars
    /\ UNCHANGED thread_vars
    /\ UNCHANGED worker_vars
    /\ UNCHANGED error_vars
    /\ UNCHANGED firmware_vars
    /\ UNCHANGED crate_vars
    /\ UNCHANGED comms_vars
    /\ UNCHANGED run_vars
    /\ UNCHANGED fifo_vars
    /\ UNCHANGED cmd_vars
    /\ UNCHANGED mask_vars

\* queue::flush(): buffers.clear() and nothing else.
QueueFlush ==
    /\ ~QueueUndefined
    /\ queue_buffers' = <<>>
    /\ ReleaseErased(queue_buffers, buf_data)
    /\ queue_result' = QueueResult("flush", "success", 0, <<>>)
    /\ UNCHANGED <<queue_size, queue_count,
                   pool_number, pool_size, pool_result, requests_issued>>
    /\ UNCHANGED role_vars
    /\ UNCHANGED sync_vars
    /\ UNCHANGED thread_vars
    /\ UNCHANGED worker_vars
    /\ UNCHANGED error_vars
    /\ UNCHANGED firmware_vars
    /\ UNCHANGED crate_vars
    /\ UNCHANGED comms_vars
    /\ UNCHANGED run_vars
    /\ UNCHANGED fifo_vars
    /\ UNCHANGED cmd_vars
    /\ UNCHANGED mask_vars

\* The client of the queue holds no handle of its own.
NoneHeld == \A b \in BufIds : handle[b] # "held"

\* A pool of QueueBuffers buffers of MaxCapacity words is created once; one client at a time
\* requests a buffer (each buffer is requested once), fills it once with
\* one word or to its capacity and pushes it, or pops a buffer and pushes it back; and the queue is
\* operated on.
QueueNext ==
    \/ pool_number = 0 /\ PoolCreate(QueueBuffers, MaxCapacity)
    \/ NoneHeld /\ requests_issued < QueueBuffers /\ PoolRequest
    \/ \E b \in BufIds : \E n \in {1, MaxCapacity} :
          buf_data[b] = <<>> /\ HandleFill(b, n)
    \/ \E b \in BufIds : QueuePush(b)
    \/ NoneHeld /\ QueuePop
    \/ \E count \in 0 .. MaxCopy : QueueCopyPtr(count)
    \/ \E to_size \in {0, MaxCopy} : QueueCopyBuffer(to_size)
    \/ QueueCompact
    \/ QueueFlush

\* ========================================================================
\* module_threads: one worker thread per module and a polling supervisor
\* ========================================================================

\* The workers (and their threads, promises and futures), one per module.
Workers == 1 .. NumModules

\* Error codes a xia::pixie::error::error thrown by a worker may carry.
ErrorCodes == {"module_invalid_operation", "internal_failure"}

\* The spawn loop: futures.push_back(promises[m].get_future()) and
\* threads.push_back(std::thread(...)); after the last thread the supervisor
\* enters its while loop (finished = 0 != threads.size()) and starts a sweep.
SupervisorSpawn ==
    /\ mt_pc = "spawn"
    /\ mt_future_valid' = [mt_future_valid EXCEPT ![mt_t] = TRUE]
    /\ mt_worker' = [mt_worker EXCEPT ![mt_t] = "running"]
    /\ IF mt_t < NumModules
       THEN /\ mt_t' = mt_t + 1
            /\ UNCHANGED <<mt_pc, mt_finished>>
       ELSE /\ mt_pc' = "sweep"
            /\ mt_t' = 1
            /\ mt_finished' = NumModules
    /\ UNCHANGED <<mt_first_error, mt_promise, mt_joined>>
    /\ UNCHANGED role_vars
    /\ UNCHANGED sync_vars
    /\ UNCHANGED pool_vars
    /\ UNCHANGED queue_vars
    /\ UNCHANGED worker_vars
    /\ UNCHANGED error_vars
    /\ UNCHANGED firmware_vars
    /\ UNCHANGED crate_vars
    /\ UNCHANGED comms_vars
    /\ UNCHANGED run_vars
    /\ UNCHANGED fifo_vars
    /\ UNCHANGED cmd_vars
    /\ UNCHANGED mask_vars

\* worker.worker(*module) returns: promises[m].set_value(success).
WorkerSucceeds(w) ==
    /\ mt_worker[w] = "running"
    /\ mt_promise' = [mt_promise EXCEPT ![w] = "success"]
    /\ mt_worker' = [mt_worker EXCEPT ![w] = "settled"]
    /\ UNCHANGED <<mt_pc, mt_t, mt_finished, mt_first_error,
                   mt_future_valid, mt_joined>>
    /\ UNCHANGED role_vars
    /\ UNCHANGED sync_vars
    /\ UNCHANGED pool_vars
    /\ UNCHANGED queue_vars
    /\ UNCHANGED worker_vars
    /\ UNCHANGED error_vars
    /\ UNCHANGED firmware_vars
    /\ UNCHANGED crate_vars
    /\ UNCHANGED comms_vars
    /\ UNCHANGED run_vars
    /\ UNCHANGED fifo_vars
    /\ UNCHANGED cmd_vars
    /\ UNCHANGED mask_vars

\* The worker throws a xia::pixie::error::error: promises[m].set_value(e.type).
WorkerThrowsError(w, e) ==
    /\ mt_worker[w] = "running"
    /\ mt_promise' = [mt_promise EXCEPT ![w] = e]
    /\ mt_worker' = [mt_worker EXCEPT ![w] = "settled"]
    /\ UNCHANGED <<mt_pc, mt_t, mt_finished, mt_first_error,
                   mt_future_valid, mt_joined>>
    /\ UNCHANGED role_vars
    /\ UNCHANGED sync_vars
    /\ UNCHANGED pool_vars
    /\ UNCHANGED queue_vars
    /\ UNCHANGED worker_vars
    /\ UNCHANGED error_vars
    /\ UNCHANGED firmware_vars
    /\ UNCHANGED crate_vars
    /\ UNCHANGED comms_vars
    /\ UNCHANGED run_vars
    /\ UNCHANGED fifo_vars
    /\ UNCHANGED cmd_vars
    /\ UNCHANGED mask_vars

\* The worker throws anything else (list_save_worker::worker throws
\* std::runtime_error): promises[m].set_exception(std::current_exception()).
WorkerThrowsOther(w) ==
    /\ mt_worker[w] = "running"
    /\ mt_promise' = [mt_promise EXCEPT ![w] = "exception"]
    /\ mt_worker' = [mt_worker EXCEPT ![w] = "settled"]
    /\ UNCHANGED <<mt_pc, mt_t, mt_finished, mt_first_error,
                   mt_future_valid, mt_joined>>
    /\ UNCHANGED role_vars
    /\ UNCHANGED sync_vars
    /\ UNCHANGED pool_vars
    /\ UNCHANGED queue_vars
    /\ UNCHANGED worker_vars
    /\ UNCHANGED error_vars
    /\ UNCHANGED firmware_vars
    /\ UNCHANGED crate_vars
    /\ UNCHANGED comms_vars
    /\ UNCHANGED run_vars
    /\ UNCHANGED fifo_vars
    /\ UNCHANGED cmd_vars
    /\ UNCHANGED mask_vars

\* worker.running = false and the thread function returns.
WorkerExit(w) ==
    /\ mt_worker[w] = "settled"
    /\ mt_worker' = [mt_worker EXCEPT ![w] = "finished"]
    /\ UNCHANGED <<mt_pc, mt_t, mt_finished, mt_first_error, mt_promise,
                   mt_future_valid, mt_joined>>
    /\ UNCHANGED role_vars
    /\ UNCHANGED sync_vars
    /\ UNCHANGED pool_vars
    /\ UNCHANGED queue_vars
    /\ UNCHANGED worker_vars
    /\ UNCHANGED error_vars
    /\ UNCHANGED firmware_vars
    /\ UNCHANGED crate_vars
    /\ UNCHANGED comms_vars
    /\ UNCHANGED run_vars
    /\ UNCHANGED fifo_vars
    /\ UNCHANGED cmd_vars
    /\ UNCHANGED mask_vars

\* One turn of the for loop of a sweep.  A ready future is read with
\* future.get(), which returns the stored code or re-throws the stored
\* exception; the exception is not caught in module_threads.
SupervisorPoll ==
    /\ mt_pc = "sweep"
    /\ mt_t <= NumModules
    /\ IF mt_future_valid[mt_t]
       THEN IF mt_promise[mt_t] # "none"
            THEN /\ mt_future_valid' = [mt_future_valid EXCEPT ![mt_t] = FALSE]
                 /\ IF mt_promise[mt_t] = "exception"
                    THEN /\ mt_pc' = "escaped"
                         /\ UNCHANGED mt_first_error
                    ELSE /\ mt_pc' = "join"
                         /\ mt_first_error' =
                              IF mt_first_error = "success"
                              THEN mt_promise[mt_t] ELSE mt_first_error
                 /\ UNCHANGED <<mt_t, mt_finished>>
            ELSE /\ mt_finished' = mt_finished - 1
                 /\ mt_t' = mt_t + 1
                 /\ UNCHANGED <<mt_pc, mt_first_error, mt_future_valid>>
       ELSE /\ mt_t' = mt_t + 1
            /\ UNCHANGED <<mt_pc, mt_finished, mt_first_error,
                           mt_future_valid>>
    /\ UNCHANGED <<mt_worker, mt_promise, mt_joined>>
    /\ UNCHANGED role_vars
    /\ UNCHANGED sync_vars
    /\ UNCHANGED pool_vars
    /\ UNCHANGED queue_vars
    /\ UNCHANGED worker_vars
    /\ UNCHANGED error_vars
    /\ UNCHANGED firmware_vars
    /\ UNCHANGED crate_vars
    /\ UNCHANGED comms_vars
    /\ UNCHANGED run_vars
    /\ UNCHANGED fifo_vars
    /\ UNCHANGED cmd_vars
    /\ UNCHANGED mask_vars

\* threads[t].join() returns once the thread function has returned.
SupervisorJoin ==
    /\ mt_pc = "join"
    /\ mt_worker[mt_t] = "finished"
    /\ mt_joined' = [mt_joined EXCEPT ![mt_t] = TRUE]
    /\ mt_pc' = "sweep"
    /\ mt_t' = mt_t + 1
    /\ UNCHANGED <<mt_finished, mt_first_error, mt_worker, mt_promise,
                   mt_future_valid>>
    /\ UNCHANGED role_vars
    /\ UNCHANGED sync_vars
    /\ UNCHANGED pool_vars
    /\ UNCHANGED queue_vars
    /\ UNCHANGED worker_vars
    /\ UNCHANGED error_vars
    /\ UNCHANGED firmware_vars
    /\ UNCHANGED crate_vars
    /\ UNCHANGED comms_vars
    /\ UNCHANGED run_vars
    /\ UNCHANGED fifo_vars
    /\ UNCHANGED cmd_vars
    /\ UNCHANGED mask_vars

\* The end of a sweep: hw::wait, then the while condition; when every
\* future has been read the function throws error(first_error) or returns.
SupervisorEndSweep ==
    /\ mt_pc = "sweep"
    /\ mt_t > NumModules
    /\ IF mt_finished # NumModules
       THEN /\ mt_finished' = NumModules
            /\ mt_t' = 1
            /\ UNCHANGED mt_pc
       ELSE /\ mt_pc' = IF mt_first_error # "success"
                       THEN "thrown" ELSE "returned"
            /\ UNCHANGED <<mt_t, mt_finished>>
    /\ UNCHANGED <<mt_first_error, mt_worker, mt_promise, mt_future_valid,
                   mt_joined>>
    /\ UNCHANGED role_vars
    /\ UNCHANGED sync_vars
    /\ UNCHANGED pool_vars
    /\ UNCHANGED queue_vars
    /\ UNCHANGED worker_vars
    /\ UNCHANGED error_vars
    /\ UNCHANGED firmware_vars
    /\ UNCHANGED crate_vars
    /\ UNCHANGED comms_vars
    /\ UNCHANGED run_vars
    /\ UNCHANGED fifo_vars
    /\ UNCHANGED cmd_vars
    /\ UNCHANGED mask_vars

ThreadsNext ==
    \/ SupervisorSpawn
    \/ \E w \in Workers : WorkerSucceeds(w)
    \/ \E w \in Workers : \E e \in ErrorCodes : WorkerThrowsError(w, e)
    \/ \E w \in Workers : WorkerThrowsOther(w)
    \/ \E w \in Workers : WorkerExit(w)
    \/ SupervisorPoll
    \/ SupervisorJoin
    \/ SupervisorEndSweep

\* ========================================================================
\* list_save_worker: the list-mode worker thread of one module
\* ========================================================================

NoCalls == [start |-> 0, read |-> 0, empty |-> 0, run_end |-> 0, drain |-> 0]

\* module.run_stats: hw_overflows, overflows, in and out.
RunStats(hw_overflows, overflows, in, out) ==
    [hw_overflows |-> hw_overflows, overflows |-> overflows,
     in |-> in, out |-> out]

\* list_mode_command: secs == 0 is refused; every worker gets seconds and
\* run_task before module_threads starts its thread.
LwConfigure(run_task, secs) ==
    /\ lw_pc = "constructed"
    /\ secs # 0
    /\ lw_pc' = "spawned"
    /\ lw_run_task' = run_task
    /\ lw_seconds' = secs
    /\ UNCHANGED <<lw_elapsed, lw_running, lw_total, lw_written, lw_calls,
                   lw_stats, lw_result>>
    /\ UNCHANGED role_vars
    /\ UNCHANGED sync_vars
    /\ UNCHANGED pool_vars
    /\ UNCHANGED queue_vars
    /\ UNCHANGED thread_vars
    /\ UNCHANGED error_vars
    /\ UNCHANGED firmware_vars
    /\ UNCHANGED crate_vars
    /\ UNCHANGED comms_vars
    /\ UNCHANGED run_vars
    /\ UNCHANGED fifo_vars
    /\ UNCHANGED cmd_vars
    /\ UNCHANGED mask_vars

\* The thread starts: worker.running = true, then worker() opens its output
\* file; a failed open throws std::runtime_error, which the thread stores
\* with set_exception before worker.running = false.
LwOpen(opened) ==
    /\ lw_pc = "spawned"
    /\ IF opened
       THEN /\ lw_pc' = "start"
            /\ lw_running' = TRUE
            /\ UNCHANGED lw_result
       ELSE /\ lw_pc' = "failed_open"
            /\ lw_running' = FALSE
            /\ lw_result' = "exception"
    /\ UNCHANGED <<lw_run_task, lw_seconds, lw_elapsed, lw_total, lw_written,
                   lw_calls, lw_stats>>
    /\ UNCHANGED role_vars
    /\ UNCHANGED sync_vars
    /\ UNCHANGED pool_vars
    /\ UNCHANGED queue_vars
    /\ UNCHANGED thread_vars
    /\ UNCHANGED error_vars
    /\ UNCHANGED firmware_vars
    /\ UNCHANGED crate_vars
    /\ UNCHANGED comms_vars
    /\ UNCHANGED run_vars
    /\ UNCHANGED fifo_vars
    /\ UNCHANGED cmd_vars
    /\ UNCHANGED mask_vars

LwStart_always(e) ==
    /\ lw_pc = "start"
    /\ lw_calls' = [lw_calls EXCEPT !.start = lw_calls.start + 1]
    /\ IF e = "success"
       THEN /\ lw_pc' = "loop"
            /\ lw_total' = 0
            /\ lw_elapsed' = 0
            /\ UNCHANGED <<lw_running, lw_result>>
       ELSE /\ lw_pc' = "failed_start"
            /\ lw_result' = e
            /\ lw_running' = FALSE
            /\ UNCHANGED <<lw_total, lw_elapsed>>
    /\ UNCHANGED <<lw_run_task, lw_seconds, lw_written, lw_stats>>
    /\ UNCHANGED role_vars
    /\ UNCHANGED sync_vars
    /\ UNCHANGED pool_vars
    /\ UNCHANGED queue_vars
    /\ UNCHANGED thread_vars
    /\ UNCHANGED error_vars
    /\ UNCHANGED firmware_vars
    /\ UNCHANGED crate_vars
    /\ UNCHANGED comms_vars
    /\ UNCHANGED run_vars
    /\ UNCHANGED fifo_vars
    /\ UNCHANGED cmd_vars
    /\ UNCHANGED mask_vars

\* if (run_task) module.start_listmode(new_run), which returns or throws a
\* pixie error `e` (stored by the thread with set_value(e.type)); then
\* total = 0 and period.start().
LwStart(e) ==
    /\ lw_pc = "start"
    /\ IF lw_run_task
       THEN /\ lw_calls' = [lw_calls EXCEPT !.start = lw_calls.start + 1]
            /\ IF e = "success"
               THEN /\ lw_pc' = "loop"
                    /\ lw_total' = 0
                    /\ lw_elapsed' = 0
                    /\ UNCHANGED <<lw_running, lw_result>>
               ELSE /\ lw_pc' = "failed_start"
                    /\ lw_result' = e
                    /\ lw_running' = FALSE
                    /\ UNCHANGED <<lw_total, lw_elapsed>>
       ELSE /\ e = "success"
            /\ lw_pc' = "loop"
            /\ lw_total' = 0
            /\ lw_elapsed' = 0
            /\ UNCHANGED <<lw_calls, lw_running, lw_result>>
    /\ UNCHANGED <<lw_run_task, lw_seconds, lw_written, lw_stats>>
    /\ UNCHANGED role_vars
    /\ UNCHANGED sync_vars
    /\ UNCHANGED pool_vars
    /\ UNCHANGED queue_vars
    /\ UNCHANGED thread_vars
    /\ UNCHANGED error_vars
    /\ UNCHANGED firmware_vars
    /\ UNCHANGED crate_vars
    /\ UNCHANGED comms_vars
    /\ UNCHANGED run_vars
    /\ UNCHANGED fifo_vars
    /\ UNCHANGED cmd_vars
    /\ UNCHANGED mask_vars

\* A second of the worker's period passes while it is in its loop.
LwTick ==
    /\ lw_pc \in {"loop", "read"}
    /\ lw_elapsed < lw_seconds
    /\ lw_elapsed' = lw_elapsed + 1
    /\ UNCHANGED <<lw_pc, lw_run_task, lw_seconds, lw_running, lw_total,
                   lw_written, lw_calls, lw_stats, lw_result>>
    /\ UNCHANGED role_vars
    /\ UNCHANGED sync_vars
    /\ UNCHANGED pool_vars
    /\ UNCHANGED queue_vars
    /\ UNCHANGED thread_vars
    /\ UNCHANGED error_vars
    /\ UNCHANGED firmware_vars
    /\ UNCHANGED crate_vars
    /\ UNCHANGED comms_vars
    /\ UNCHANGED run_vars
    /\ UNCHANGED fifo_vars
    /\ UNCHANGED cmd_vars
    /\ UNCHANGED mask_vars

\* Another thread clears the worker's public atomic flag `running`.
LwStop ==
    /\ lw_pc \in {"loop", "read"}
    /\ lw_running
    /\ lw_running' = FALSE
    /\ UNCHANGED <<lw_pc, lw_run_task, lw_seconds, lw_elapsed, lw_total,
                   lw_written, lw_calls, lw_stats, lw_result>>
    /\ UNCHANGED role_vars
    /\ UNCHANGED sync_vars
    /\ UNCHANGED pool_vars
    /\ UNCHANGED queue_vars
    /\ UNCHANGED thread_vars
    /\ UNCHANGED error_vars
    /\ UNCHANGED firmware_vars
    /\ UNCHANGED crate_vars
    /\ UNCHANGED comms_vars
    /\ UNCHANGED run_vars
    /\ UNCHANGED fifo_vars
    /\ UNCHANGED cmd_vars
    /\ UNCHANGED mask_vars

\* while (period.secs() < seconds)
LwLoopTest ==
    /\ lw_pc = "loop"
    /\ lw_pc' = IF lw_elapsed < lw_seconds THEN "read" ELSE "end"
    /\ UNCHANGED <<lw_run_task, lw_seconds, lw_elapsed, lw_running, lw_total,
                   lw_written, lw_calls, lw_stats, lw_result>>
    /\ UNCHANGED role_vars
    /\ UNCHANGED sync_vars
    /\ UNCHANGED pool_vars
    /\ UNCHANGED queue_vars
    /\ UNCHANGED thread_vars
    /\ UNCHANGED error_vars
    /\ UNCHANGED firmware_vars
    /\ UNCHANGED crate_vars
    /\ UNCHANGED comms_vars
    /\ UNCHANGED run_vars
    /\ UNCHANGED fifo_vars
    /\ UNCHANGED cmd_vars
    /\ UNCHANGED mask_vars

\* The body of the loop: lm.clear(); read_list_mode(lm) returns n words;
\* n > 0 words are counted in total and written, after 0 words the worker
\* waits for the poll period.
LwPoll(n) ==
    /\ lw_pc = "read"
    /\ lw_calls.read < MaxPolls
    /\ lw_pc' = "loop"
    /\ IF n > 0
       THEN /\ lw_total' = lw_total + n
            /\ lw_written' = lw_written + n
            /\ lw_calls' = [lw_calls EXCEPT !.read = lw_calls.read + 1]
       ELSE /\ lw_calls' = [lw_calls EXCEPT !.read = lw_calls.read + 1,
                                            !.empty = lw_calls.empty + 1]
            /\ UNCHANGED <<lw_total, lw_written>>
    /\ UNCHANGED <<lw_run_task, lw_seconds, lw_elapsed, lw_running,
                   lw_stats, lw_result>>
    /\ UNCHANGED role_vars
    /\ UNCHANGED sync_vars
    /\ UNCHANGED pool_vars
    /\ UNCHANGED queue_vars
    /\ UNCHANGED thread_vars
    /\ UNCHANGED error_vars
    /\ UNCHANGED firmware_vars
    /\ UNCHANGED crate_vars
    /\ UNCHANGED comms_vars
    /\ UNCHANGED run_vars
    /\ UNCHANGED fifo_vars
    /\ UNCHANGED cmd_vars
    /\ UNCHANGED mask_vars

\* module.read_list_mode(lm) in the loop throws a pixie error `e`: nothing
\* in worker() catches it, so it leaves worker() from the loop and the
\* thread stores it with set_value(e.type).
LwPollFails(e) ==
    /\ lw_pc = "read"
    /\ lw_calls.read < MaxPolls
    /\ lw_pc' = "failed_read"
    /\ lw_calls' = [lw_calls EXCEPT !.read = lw_calls.read + 1]
    /\ lw_result' = e
    /\ lw_running' = FALSE
    /\ UNCHANGED <<lw_run_task, lw_seconds, lw_elapsed, lw_total, lw_written,
                   lw_stats>>
    /\ UNCHANGED role_vars
    /\ UNCHANGED sync_vars
    /\ UNCHANGED pool_vars
    /\ UNCHANGED queue_vars
    /\ UNCHANGED thread_vars
    /\ UNCHANGED error_vars
    /\ UNCHANGED firmware_vars
    /\ UNCHANGED crate_vars
    /\ UNCHANGED comms_vars
    /\ UNCHANGED run_vars
    /\ UNCHANGED fifo_vars
    /\ UNCHANGED cmd_vars
    /\ UNCHANGED mask_vars

\* After the loop: a run task calls module.run_end(); any other worker goes
\* to period.end() and returns, and the thread stores success.
LwEnd ==
    /\ lw_pc = "end"
    /\ IF lw_run_task
       THEN /\ lw_pc' = "drain"
            /\ lw_calls' = [lw_calls EXCEPT !.run_end = lw_calls.run_end + 1]
            /\ UNCHANGED <<lw_running, lw_result>>
       ELSE /\ lw_pc' = "done"
            /\ lw_result' = "success"
            /\ lw_running' = FALSE
            /\ UNCHANGED lw_calls
    /\ UNCHANGED <<lw_run_task, lw_seconds, lw_elapsed, lw_total, lw_written,
                   lw_stats>>
    /\ UNCHANGED role_vars
    /\ UNCHANGED sync_vars
    /\ UNCHANGED pool_vars
    /\ UNCHANGED queue_vars
    /\ UNCHANGED thread_vars
    /\ UNCHANGED error_vars
    /\ UNCHANGED firmware_vars
    /\ UNCHANGED crate_vars
    /\ UNCHANGED comms_vars
    /\ UNCHANGED run_vars
    /\ UNCHANGED fifo_vars
    /\ UNCHANGED cmd_vars
    /\ UNCHANGED mask_vars

LwDrain_no_total(n) ==
    /\ lw_pc = "drain"
    /\ lw_pc' = "check"
    /\ lw_written' = lw_written + n
    /\ lw_calls' = [lw_calls EXCEPT !.read = lw_calls.read + 1,
                                    !.drain = lw_calls.drain + 1,
                                    !.empty = lw_calls.empty
                                              + (IF n = 0 THEN 1 ELSE 0)]
    /\ UNCHANGED <<lw_run_task, lw_seconds, lw_elapsed, lw_running, lw_total,
                   lw_stats, lw_result>>
    /\ UNCHANGED role_vars
    /\ UNCHANGED sync_vars
    /\ UNCHANGED pool_vars
    /\ UNCHANGED queue_vars
    /\ UNCHANGED thread_vars
    /\ UNCHANGED error_vars
    /\ UNCHANGED firmware_vars
    /\ UNCHANGED crate_vars
    /\ UNCHANGED comms_vars
    /\ UNCHANGED run_vars
    /\ UNCHANGED fifo_vars
    /\ UNCHANGED cmd_vars
    /\ UNCHANGED mask_vars

\* The final read of a run task: lm.clear(); read_list_mode(lm) returns n
\* words, counted and written when n > 0.
LwDrain(n) ==
    /\ lw_pc = "drain"
    /\ lw_pc' = "check"
    /\ lw_total' = lw_total + n
    /\ lw_written' = lw_written + n
    /\ lw_calls' = [lw_calls EXCEPT !.read = lw_calls.read + 1,
                                    !.drain = lw_calls.drain + 1,
                                    !.empty = lw_calls.empty
                                              + (IF n = 0 THEN 1 ELSE 0)]
    /\ UNCHANGED <<lw_run_task, lw_seconds, lw_elapsed, lw_running,
                   lw_stats, lw_result>>
    /\ UNCHANGED role_vars
    /\ UNCHANGED sync_vars
    /\ UNCHANGED pool_vars
    /\ UNCHANGED queue_vars
    /\ UNCHANGED thread_vars
    /\ UNCHANGED error_vars
    /\ UNCHANGED firmware_vars
    /\ UNCHANGED crate_vars
    /\ UNCHANGED comms_vars
    /\ UNCHANGED run_vars
    /\ UNCHANGED fifo_vars
    /\ UNCHANGED cmd_vars
    /\ UNCHANGED mask_vars

\* The run statistics say the run lost or left data.
stats_mismatch(stats) ==
    \/ stats.hw_overflows # 0
    \/ stats.overflows # 0
    \/ stats.in # stats.out

\* The checks of module.run_stats at the end of a run task: each mismatch
\* throws std::runtime_error, which the thread stores with set_exception;
\* otherwise period.end() and the thread stores success.
LwCheck(stats) ==
    /\ lw_pc = "check"
    /\ lw_stats' = stats
    /\ IF stats.hw_overflows # 0
       THEN lw_pc' = "failed_check" /\ lw_result' = "exception"
       ELSE IF stats.overflows # 0
            THEN lw_pc' = "failed_check" /\ lw_result' = "exception"
            ELSE IF stats.in # stats.out
                 THEN lw_pc' = "failed_check" /\ lw_result' = "exception"
                 ELSE lw_pc' = "done" /\ lw_result' = "success"
    /\ lw_running' = FALSE
    /\ UNCHANGED <<lw_run_task, lw_seconds, lw_elapsed, lw_total, lw_written,
                   lw_calls>>
    /\ UNCHANGED role_vars
    /\ UNCHANGED sync_vars
    /\ UNCHANGED pool_vars
    /\ UNCHANGED queue_vars
    /\ UNCHANGED thread_vars
    /\ UNCHANGED error_vars
    /\ UNCHANGED firmware_vars
    /\ UNCHANGED crate_vars
    /\ UNCHANGED comms_vars
    /\ UNCHANGED run_vars
    /\ UNCHANGED fifo_vars
    /\ UNCHANGED cmd_vars
    /\ UNCHANGED mask_vars

WorkerNext ==
    \/ \E run_task \in BOOLEAN : \E secs \in 0 .. MaxSeconds :
          LwConfigure(run_task, secs)
    \/ \E opened \in BOOLEAN : LwOpen(opened)
    \/ \E e \in {"success"} \cup ErrorCodes : LwStart(e)
    \/ LwTick
    \/ LwStop
    \/ LwLoopTest
    \/ \E n \in 0 .. MaxRead : LwPoll(n)
    \/ \E e \in ErrorCodes : LwPollFails(e)
    \/ LwEnd
    \/ \E n \in 0 .. MaxRead : LwDrain(n)
    \/ \E hw, ov, in, out \in 0 .. 1 : LwCheck(RunStats(hw, ov, in, out))

\* ========================================================================
\* Error codes, result codes and the exit code of the command line tool
\* ========================================================================

\* enum struct code, in the order of its enumerators; the value of an
\* enumerator is its position, counted from 0.
code_enum ==
    <<
      "success", "crate_already_open", "crate_not_ready",
      "crate_invalid_param", "module_number_invalid",
      "module_total_invalid", "module_already_open", "module_close_failure",
      "module_offline", "module_info_failure", "module_invalid_operation",
      "module_invalid_firmware", "module_initialize_failure",
      "module_invalid_param", "module_invalid_var", "module_param_disabled",
      "module_param_readonly", "module_param_writeonly",
      "module_task_timeout", "module_invalid_slot", "module_not_found",
      "module_test_invalid", "channel_number_invalid",
      "channel_invalid_param", "channel_invalid_var",
      "channel_invalid_index", "channel_param_disabled",
      "channel_param_readonly", "channel_param_writeonly",
      "device_load_failure", "device_boot_failure",
      "device_initialize_failure", "device_copy_failure",
      "device_image_failure", "device_hw_failure", "device_dma_failure",
      "device_dma_busy", "device_fifo_failure", "device_eeprom_failure",
      "device_eeprom_bad_type", "device_eeprom_not_found",
      "config_invalid_param", "config_param_not_found", "config_json_error",
      "file_not_found", "file_open_failure", "file_read_failure",
      "file_size_invalid", "file_create_failure", "no_memory",
      "slot_map_invalid", "invalid_value", "not_supported",
      "buffer_pool_empty", "buffer_pool_not_empty", "buffer_pool_busy",
      "buffer_pool_not_enough", "unknown_error", "internal_failure",
      "bad_allocation", "bad_error_code", "last"
    >>

\* The value of an enumerator.
code_value(c) == (CHOOSE i \in 1 .. Len(code_enum) : code_enum[i] = c) - 1

\* The error codes: every enumerator but the end marker `last`.
Codes == {code_enum[i] : i \in 1 .. Len(code_enum)} \ {"last"}

\* The groups of the error codes, as the enum lays them out.
code_groups ==
    [
     crate |->
        {
          "crate_already_open", "crate_not_ready", "crate_invalid_param"
        },
     module |->
        {
          "module_number_invalid", "module_total_invalid",
          "module_already_open", "module_close_failure", "module_offline",
          "module_info_failure", "module_invalid_operation",
          "module_invalid_firmware", "module_initialize_failure",
          "module_invalid_param", "module_invalid_var",
          "module_param_disabled", "module_param_readonly",
          "module_param_writeonly", "module_task_timeout",
          "module_invalid_slot", "module_not_found", "module_test_invalid"
        },
     channel |->
        {
          "channel_number_invalid", "channel_invalid_param",
          "channel_invalid_var", "channel_invalid_index",
          "channel_param_disabled", "channel_param_readonly",
          "channel_param_writeonly"
        },
     device |->
        {
          "device_load_failure", "device_boot_failure",
          "device_initialize_failure", "device_copy_failure",
          "device_image_failure", "device_hw_failure", "device_dma_failure",
          "device_dma_busy", "device_fifo_failure", "device_eeprom_failure",
          "device_eeprom_bad_type", "device_eeprom_not_found"
        },
     config |->
        {
          "config_invalid_param", "config_param_not_found",
          "config_json_error"
        },
     file |->
        {
          "file_not_found", "file_open_failure", "file_read_failure",
          "file_size_invalid", "file_create_failure"
        },
     system |->
        {
          "no_memory", "slot_map_invalid", "invalid_value", "not_supported",
          "buffer_pool_empty", "buffer_pool_not_empty", "buffer_pool_busy",
          "buffer_pool_not_enough"
        },
     catch_all |->
        {
          "unknown_error", "internal_failure", "bad_allocation",
          "bad_error_code"
        }
    ]

\* The initialiser of the map result_codes: code, result.
result_table ==
    <<
      <<"success", 0>>,
      <<"crate_already_open", 100>>,
      <<"crate_not_ready", 101>>,
      <<"crate_invalid_param", 102>>,
      <<"module_number_invalid", 200>>,
      <<"module_total_invalid", 201>>,
      <<"module_already_open", 202>>,
      <<"module_close_failure", 203>>,
      <<"module_offline", 204>>,
      <<"module_info_failure", 205>>,
      <<"module_invalid_operation", 206>>,
      <<"module_invalid_firmware", 207>>,
      <<"module_initialize_failure", 208>>,
      <<"module_invalid_param", 209>>,
      <<"module_invalid_var", 210>>,
      <<"module_param_disabled", 211>>,
      <<"module_param_readonly", 212>>,
      <<"module_param_writeonly", 213>>,
      <<"module_task_timeout", 214>>,
      <<"module_invalid_slot", 215>>,
      <<"module_not_found", 216>>,
      <<"channel_number_invalid", 300>>,
      <<"channel_invalid_param", 301>>,
      <<"channel_invalid_var", 302>>,
      <<"channel_invalid_index", 303>>,
      <<"channel_param_disabled", 304>>,
      <<"channel_param_readonly", 305>>,
      <<"channel_param_writeonly", 306>>,
      <<"device_load_failure", 500>>,
      <<"device_boot_failure", 501>>,
      <<"device_initialize_failure", 502>>,
      <<"device_copy_failure", 503>>,
      <<"device_image_failure", 504>>,
      <<"device_hw_failure", 505>>,
      <<"device_dma_failure", 506>>,
      <<"device_dma_busy", 507>>,
      <<"device_fifo_failure", 508>>,
      <<"device_eeprom_failure", 509>>,
      <<"device_eeprom_bad_type", 510>>,
      <<"device_eeprom_not_found", 511>>,
      <<"config_invalid_param", 600>>,
      <<"config_param_not_found", 601>>,
      <<"config_json_error", 602>>,
      <<"file_not_found", 700>>,
      <<"file_open_failure", 701>>,
      <<"file_read_failure", 702>>,
      <<"file_size_invalid", 703>>,
      <<"file_create_failure", 704>>,
      <<"no_memory", 800>>,
      <<"slot_map_invalid", 801>>,
      <<"invalid_value", 802>>,
      <<"not_supported", 803>>,
      <<"buffer_pool_empty", 804>>,
      <<"buffer_pool_not_empty", 805>>,
      <<"buffer_pool_busy", 806>>,
      <<"buffer_pool_not_enough", 807>>,
      <<"unknown_error", 900>>,
      <<"internal_failure", 901>>,
      <<"bad_error_code", 990>>
    >>

\* std::map result_codes: the first initialiser of a code is the one kept.
result_codes ==
    [c \in {result_table[i][1] : i \in 1 .. Len(result_table)} |->
       result_table[CHOOSE i \in 1 .. Len(result_table) :
                       /\ result_table[i][1] = c
                       /\ \A j \in 1 .. (i - 1) : result_table[j][1] # c][2]]

\* check_code_match()
check_code_match == Cardinality(DOMAIN result_codes) = code_value("last")

\* api_result(type)
api_result(type) ==
    IF type \notin DOMAIN result_codes
    THEN result_codes["bad_error_code"]
    ELSE result_codes[type]

\* return_code(result) and error::return_code()
return_code(result) == 0 - result

\* api_result_unknown_error()
api_result_unknown_error == api_result("unknown_error")

\* A value of type code that is no error code: the end marker, or an integer
\* cast that names no enumerator.
NotCodes == {"last", "out_of_range"}

\* main has not returned yet.
Running == [how |-> "running", value |-> 0]

\* main has returned `value`.
Returned(value) == [how |-> "returned", value |-> value]

\* A caller looks up the result of a code.
ApiResult(type) ==
    /\ er_exit = Running
    /\ er_code' = type
    /\ er_result' = api_result(type)
    /\ UNCHANGED <<er_thrown, er_exit>>
    /\ UNCHANGED role_vars
    /\ UNCHANGED sync_vars
    /\ UNCHANGED pool_vars
    /\ UNCHANGED queue_vars
    /\ UNCHANGED thread_vars
    /\ UNCHANGED worker_vars
    /\ UNCHANGED firmware_vars
    /\ UNCHANGED crate_vars
    /\ UNCHANGED comms_vars
    /\ UNCHANGED run_vars
    /\ UNCHANGED fifo_vars
    /\ UNCHANGED cmd_vars
    /\ UNCHANGED mask_vars

\* main(): the commands end with nothing thrown, with a pixie error of type
\* `thrown`, with another std::exception or with anything else; the catch
\* handlers pick the value main returns.  With throw_unhandled set the last
\* handler throws again.
MainReturn(thrown, throw_unhandled) ==
    /\ er_exit = Running
    /\ er_thrown' = thrown
    /\ er_exit' =
         IF thrown = "none" THEN Returned(0)
         ELSE IF thrown \in Codes
              THEN Returned(return_code(api_result(thrown)))
              ELSE IF thrown = "std_exception"
                   THEN Returned(api_result_unknown_error)
                   ELSE IF throw_unhandled
                        THEN [how |-> "thrown", value |-> 0]
                        ELSE Returned(api_result_unknown_error)
    /\ UNCHANGED <<er_code, er_result>>
    /\ UNCHANGED role_vars
    /\ UNCHANGED sync_vars
    /\ UNCHANGED pool_vars
    /\ UNCHANGED queue_vars
    /\ UNCHANGED thread_vars
    /\ UNCHANGED worker_vars
    /\ UNCHANGED firmware_vars
    /\ UNCHANGED crate_vars
    /\ UNCHANGED comms_vars
    /\ UNCHANGED run_vars
    /\ UNCHANGED fifo_vars
    /\ UNCHANGED cmd_vars
    /\ UNCHANGED mask_vars

ErrorNext ==
    \/ \E type \in Codes \cup NotCodes : ApiResult(type)
    \/ \E thrown \in {"none", "std_exception", "unhandled"}
                     \cup (Codes \ {"success"}) :
         \E throw_unhandled \in BOOLEAN : MainReturn(thrown, throw_unhandled)

\* ========================================================================
\* Firmware registry
\* ========================================================================

\* The values firmware descriptors are made of.
Versions == {"1.0", "2.0"}
Revisions == {1, 2}
Devices == {"sys", "dsp"}
Filenames == {"a.bin", "b.bin"}
SlotLists == {<<>>, <<1>>}
Slots == {1, 2}

\* struct firmware: version, mod_revision, device, slot and filename.  The
\* firmwares that list no slot come from one file, the others from another.
Firmwares ==
    {fw \in [version : Versions, mod_revision : Revisions, device : Devices,
             slot : SlotLists, filename : Filenames] :
       fw.filename = "a.bin" <=> fw.slot = <<>>}

\* An empty firmware_ref.
NoFirmware ==
    [version |-> "", mod_revision |-> 0, device |-> "", slot |-> <<>>,
     filename |-> ""]

FwResult(op, code, value, found) ==
    [op |-> op, code |-> code, value |-> value, found |-> found]

firmware_eq_with_filename(a, b) ==
    /\ a.version = b.version
    /\ a.mod_revision = b.mod_revision
    /\ a.device = b.device
    /\ a.filename = b.filename

\* firmware::operator==: version, module revision and device.
firmware_eq(a, b) ==
    /\ a.version = b.version
    /\ a.mod_revision = b.mod_revision
    /\ a.device = b.device

\* check(firmwares, fw): an equal firmware is in the registry.
check(firmwares, fw) ==
    /\ fw.mod_revision \in DOMAIN firmwares
    /\ \E i \in 1 .. Len(firmwares[fw.mod_revision]) :
         firmware_eq(firmwares[fw.mod_revision][i], fw)

\* add(firmwares, fw): the registry afterwards, or the error thrown.
add(firmwares, fw) ==
    IF check(firmwares, fw)
    THEN [code |-> "module_invalid_firmware", firmwares |-> firmwares]
    ELSE [code |-> "success",
          firmwares |-> [firmwares EXCEPT
                           ![fw.mod_revision] = Append(@, fw)]]

\* The number of firmwares in a registry.
RECURSIVE registered(_, _)
registered(firmwares, revisions) ==
    IF revisions = {} THEN 0
    ELSE LET r == CHOOSE x \in revisions : TRUE
         IN Len(firmwares[r]) + registered(firmwares, revisions \ {r})

find_first_usable(firmwares, device, slot) ==
    LET usable == {i \in 1 .. Len(firmwares) :
                     /\ firmwares[i].device = device
                     /\ \/ firmwares[i].slot = <<>>
                        \/ \E k \in 1 .. Len(firmwares[i].slot) :
                             firmwares[i].slot[k] = slot}
    IN IF usable # {}
       THEN [code |-> "success",
             found |-> firmwares[CHOOSE i \in usable :
                                   \A j \in usable : i <= j]]
       ELSE [code |-> "file_not_found", found |-> NoFirmware]

\* find(firmwares, device, slot): a firmware of the device listed for the
\* slot is taken before one with no slots listed, the default.
find(firmwares, device, slot) ==
    LET listed == {i \in 1 .. Len(firmwares) :
                     /\ firmwares[i].device = device
                     /\ \E k \in 1 .. Len(firmwares[i].slot) :
                          firmwares[i].slot[k] = slot}
        defaults == {i \in 1 .. Len(firmwares) :
                       /\ firmwares[i].device = device
                       /\ firmwares[i].slot = <<>>}
    IN IF listed # {}
       THEN [code |-> "success",
             found |-> firmwares[CHOOSE i \in listed :
                                   \A j \in listed : i <= j]]
       ELSE IF defaults # {}
            THEN [code |-> "success",
                  found |-> firmwares[CHOOSE i \in defaults :
                                        \A j \in defaults : i <= j]]
            ELSE [code |-> "file_not_found", found |-> NoFirmware]

\* A caller adds a firmware to the registry.
FwAdd(fw) ==
    /\ registered(fw_registry, Revisions) < MaxFirmwares
    /\ LET out == add(fw_registry, fw)
       IN /\ fw_registry' = out.firmwares
          /\ fw_result' = FwResult("add", out.code, FALSE, NoFirmware)
    /\ UNCHANGED role_vars
    /\ UNCHANGED sync_vars
    /\ UNCHANGED pool_vars
    /\ UNCHANGED queue_vars
    /\ UNCHANGED thread_vars
    /\ UNCHANGED worker_vars
    /\ UNCHANGED error_vars
    /\ UNCHANGED crate_vars
    /\ UNCHANGED comms_vars
    /\ UNCHANGED run_vars
    /\ UNCHANGED fifo_vars
    /\ UNCHANGED cmd_vars
    /\ UNCHANGED mask_vars

\* A caller asks whether a firmware is in the registry.
FwCheck(fw) ==
    /\ fw_result' = FwResult("check", "success", check(fw_registry, fw),
                             NoFirmware)
    /\ UNCHANGED fw_registry
    /\ UNCHANGED role_vars
    /\ UNCHANGED sync_vars
    /\ UNCHANGED pool_vars
    /\ UNCHANGED queue_vars
    /\ UNCHANGED thread_vars
    /\ UNCHANGED worker_vars
    /\ UNCHANGED error_vars
    /\ UNCHANGED crate_vars
    /\ UNCHANGED comms_vars
    /\ UNCHANGED run_vars
    /\ UNCHANGED fifo_vars
    /\ UNCHANGED cmd_vars
    /\ UNCHANGED mask_vars

\* load_crate_firmware, one line of the file: a firmware that check() finds
\* is refused with std::runtime_error, any other is added.
FwLoadLine(fw) ==
    /\ registered(fw_registry, Revisions) < MaxFirmwares
    /\ IF check(fw_registry, fw)
       THEN /\ fw_result' = FwResult("load", "exception", FALSE, NoFirmware)
            /\ UNCHANGED fw_registry
       ELSE /\ fw_registry' = add(fw_registry, fw).firmwares
            /\ fw_result' = FwResult("load", add(fw_registry, fw).code, FALSE,
                                     NoFirmware)
    /\ UNCHANGED role_vars
    /\ UNCHANGED sync_vars
    /\ UNCHANGED pool_vars
    /\ UNCHANGED queue_vars
    /\ UNCHANGED thread_vars
    /\ UNCHANGED worker_vars
    /\ UNCHANGED error_vars
    /\ UNCHANGED crate_vars
    /\ UNCHANGED comms_vars
    /\ UNCHANGED run_vars
    /\ UNCHANGED fifo_vars
    /\ UNCHANGED cmd_vars
    /\ UNCHANGED mask_vars

\* A module of revision `revision` in slot `slot` looks up its firmware for
\* a device.
FwFind(revision, device, slot) ==
    /\ LET out == find(fw_registry[revision], device, slot)
       IN fw_result' = FwResult("find", out.code, FALSE, out.found)
    /\ UNCHANGED fw_registry
    /\ UNCHANGED role_vars
    /\ UNCHANGED sync_vars
    /\ UNCHANGED pool_vars
    /\ UNCHANGED queue_vars
    /\ UNCHANGED thread_vars
    /\ UNCHANGED worker_vars
    /\ UNCHANGED error_vars
    /\ UNCHANGED crate_vars
    /\ UNCHANGED comms_vars
    /\ UNCHANGED run_vars
    /\ UNCHANGED fifo_vars
    /\ UNCHANGED cmd_vars
    /\ UNCHANGED mask_vars

FirmwareNext ==
    \/ \E fw \in Firmwares : FwAdd(fw)
    \/ \E fw \in Firmwares : FwCheck(fw)
    \/ \E fw \in Firmwares : FwLoadLine(fw)
    \/ \E revision \in Revisions : \E device \in Devices : \E slot \in Slots :
         FwFind(revision, device, slot)

\* ========================================================================
\* Crate: construction and discovery of the modules
\* ========================================================================

\* module::module(): a module bound to no device.
no_device == -1

\* module::pci_find_module(device_number, device) on a bus with `devices`
\* devices, numbered from 0: found or not.
pci_find_module(device_number, devices) == device_number < devices

\* module::pci_bus(device) and module::pci_slot(device) taken together: the
\* place of a device on the bus; two devices have different places.
pci_place(device) == device

\* The loop of crate::initialize from device_number on: the modules
\* afterwards and the error thrown in the loop, if any.
RECURSIVE initialize_loop(_, _, _, _)
initialize_loop(device_number, num_modules, modules, devices) ==
    IF device_number < num_modules
    THEN IF ~pci_find_module(device_number, devices)
         THEN [modules |-> Append(modules, no_device), error |-> "none"]
         ELSE LET pushed == Append(modules, device_number)
              IN IF \E i \in 1 .. Len(pushed) :
                      pci_place(pushed[i]) = pci_place(device_number)
                 THEN [modules |-> pushed, error |-> "duplicate"]
                 ELSE initialize_loop(device_number + 1, num_modules,
                                      pushed, devices)
    ELSE [modules |-> modules, error |-> "none"]

\* crate::initialize() on a bus with `devices` devices.
initialize(num_modules, modules, devices) ==
    LET out == initialize_loop(0, num_modules, modules, devices)
    IN IF out.error # "none"
       THEN [modules |-> out.modules, result |-> out.error]
       ELSE IF Len(out.modules) # num_modules
            THEN [modules |-> out.modules, result |-> "not_found"]
            ELSE [modules |-> out.modules, result |-> "success"]

\* crate::crate(num_modules_): throws when the count it was given is not 0.
CrateConstruct(num_modules_) ==
    /\ cr_state = "none"
    /\ IF num_modules_ # 0
       THEN /\ cr_state' = "refused"
            /\ cr_result' = "already_initialised"
            /\ UNCHANGED cr_num_modules
       ELSE /\ cr_state' = "constructed"
            /\ cr_num_modules' = num_modules_
            /\ cr_result' = "success"
    /\ UNCHANGED <<cr_modules, cr_devices>>
    /\ UNCHANGED role_vars
    /\ UNCHANGED sync_vars
    /\ UNCHANGED pool_vars
    /\ UNCHANGED queue_vars
    /\ UNCHANGED thread_vars
    /\ UNCHANGED worker_vars
    /\ UNCHANGED error_vars
    /\ UNCHANGED firmware_vars
    /\ UNCHANGED comms_vars
    /\ UNCHANGED run_vars
    /\ UNCHANGED fifo_vars
    /\ UNCHANGED cmd_vars
    /\ UNCHANGED mask_vars

\* The owner of the crate sets its public member num_modules.
CrateSetNumModules(n) ==
    /\ cr_state = "constructed"
    /\ cr_num_modules' = n
    /\ UNCHANGED <<cr_state, cr_modules, cr_devices, cr_result>>
    /\ UNCHANGED role_vars
    /\ UNCHANGED sync_vars
    /\ UNCHANGED pool_vars
    /\ UNCHANGED queue_vars
    /\ UNCHANGED thread_vars
    /\ UNCHANGED worker_vars
    /\ UNCHANGED error_vars
    /\ UNCHANGED firmware_vars
    /\ UNCHANGED comms_vars
    /\ UNCHANGED run_vars
    /\ UNCHANGED fifo_vars
    /\ UNCHANGED cmd_vars
    /\ UNCHANGED mask_vars

\* crate::initialize() is called while the bus holds `devices` devices.
CrateInitialize(devices) ==
    /\ cr_state = "constructed"
    /\ Len(cr_modules) < MaxCrateModules
    /\ LET out == initialize(cr_num_modules, cr_modules, devices)
       IN /\ cr_modules' = out.modules
          /\ cr_result' = out.result
    /\ cr_devices' = devices
    /\ UNCHANGED <<cr_state, cr_num_modules>>
    /\ UNCHANGED role_vars
    /\ UNCHANGED sync_vars
    /\ UNCHANGED pool_vars
    /\ UNCHANGED queue_vars
    /\ UNCHANGED thread_vars
    /\ UNCHANGED worker_vars
    /\ UNCHANGED error_vars
    /\ UNCHANGED firmware_vars
    /\ UNCHANGED comms_vars
    /\ UNCHANGED run_vars
    /\ UNCHANGED fifo_vars
    /\ UNCHANGED cmd_vars
    /\ UNCHANGED mask_vars

CrateNext ==
    \/ \E n \in 0 .. NumModules : CrateConstruct(n)
    \/ \E n \in 0 .. NumModules : CrateSetNumModules(n)
    \/ \E devices \in 0 .. NumModules + 1 : CrateInitialize(devices)

\* ========================================================================
\* Com-FPGA controller: comms::boot and comms::done of one module
\* ========================================================================

Callers == 1 .. NumCallers

\* The register accesses a call makes before it returns: ctrl.load streams
\* the image, ctrl.done reads the status once.
accesses_of(op) == IF op = "boot" THEN LoadAccesses ELSE 1

\* A thread calls comms::boot(image, retries) or comms::done().
CommsCall(c, op) ==
    /\ co_pc[c] = "idle"
    /\ co_pc' = [co_pc EXCEPT ![c] = "guard"]
    /\ co_op' = [co_op EXCEPT ![c] = op]
    /\ co_accesses' = [co_accesses EXCEPT ![c] = 0]
    /\ UNCHANGED <<bus_owner, co_result>>
    /\ UNCHANGED role_vars
    /\ UNCHANGED sync_vars
    /\ UNCHANGED pool_vars
    /\ UNCHANGED queue_vars
    /\ UNCHANGED thread_vars
    /\ UNCHANGED worker_vars
    /\ UNCHANGED error_vars
    /\ UNCHANGED firmware_vars
    /\ UNCHANGED crate_vars
    /\ UNCHANGED run_vars
    /\ UNCHANGED fifo_vars
    /\ UNCHANGED cmd_vars
    /\ UNCHANGED mask_vars

CommsGuard_no_wait(c) ==
    /\ co_pc[c] = "guard"
    /\ bus_owner' = c
    /\ co_pc' = [co_pc EXCEPT ![c] = "ctrl"]
    /\ UNCHANGED <<co_op, co_accesses, co_result>>
    /\ UNCHANGED role_vars
    /\ UNCHANGED sync_vars
    /\ UNCHANGED pool_vars
    /\ UNCHANGED queue_vars
    /\ UNCHANGED thread_vars
    /\ UNCHANGED worker_vars
    /\ UNCHANGED error_vars
    /\ UNCHANGED firmware_vars
    /\ UNCHANGED crate_vars
    /\ UNCHANGED run_vars
    /\ UNCHANGED fifo_vars
    /\ UNCHANGED cmd_vars
    /\ UNCHANGED mask_vars

\* module::module::bus_guard guard(ctrl.module): the constructor returns
\* once it has locked the module's bus lock.
CommsGuard(c) ==
    /\ co_pc[c] = "guard"
    /\ bus_owner = 0
    /\ bus_owner' = c
    /\ co_pc' = [co_pc EXCEPT ![c] = "ctrl"]
    /\ UNCHANGED <<co_op, co_accesses, co_result>>
    /\ UNCHANGED role_vars
    /\ UNCHANGED sync_vars
    /\ UNCHANGED pool_vars
    /\ UNCHANGED queue_vars
    /\ UNCHANGED thread_vars
    /\ UNCHANGED worker_vars
    /\ UNCHANGED error_vars
    /\ UNCHANGED firmware_vars
    /\ UNCHANGED crate_vars
    /\ UNCHANGED run_vars
    /\ UNCHANGED fifo_vars
    /\ UNCHANGED cmd_vars
    /\ UNCHANGED mask_vars

\* ctrl.load(image, retries) or ctrl.done() makes its next register access.
CommsAccess(c) ==
    /\ co_pc[c] = "ctrl"
    /\ co_accesses[c] < accesses_of(co_op[c])
    /\ co_accesses' = [co_accesses EXCEPT ![c] = co_accesses[c] + 1]
    /\ UNCHANGED <<bus_owner, co_pc, co_op, co_result>>
    /\ UNCHANGED role_vars
    /\ UNCHANGED sync_vars
    /\ UNCHANGED pool_vars
    /\ UNCHANGED queue_vars
    /\ UNCHANGED thread_vars
    /\ UNCHANGED worker_vars
    /\ UNCHANGED error_vars
    /\ UNCHANGED firmware_vars
    /\ UNCHANGED crate_vars
    /\ UNCHANGED run_vars
    /\ UNCHANGED fifo_vars
    /\ UNCHANGED cmd_vars
    /\ UNCHANGED mask_vars

\* The call leaves boot / done: ctrl.load or ctrl.done returns after its
\* last register access, or throws at any point; either way the guard goes
\* out of scope and its destructor unlocks the bus lock.
CommsLeave(c, thrown) ==
    /\ co_pc[c] = "ctrl"
    /\ thrown \/ co_accesses[c] = accesses_of(co_op[c])
    /\ bus_owner' = 0
    /\ co_pc' = [co_pc EXCEPT ![c] = "idle"]
    /\ co_accesses' = [co_accesses EXCEPT ![c] = 0]
    /\ co_result' = [co_result EXCEPT
                       ![c] = IF thrown THEN "thrown" ELSE "returned"]
    /\ UNCHANGED co_op
    /\ UNCHANGED role_vars
    /\ UNCHANGED sync_vars
    /\ UNCHANGED pool_vars
    /\ UNCHANGED queue_vars
    /\ UNCHANGED thread_vars
    /\ UNCHANGED worker_vars
    /\ UNCHANGED error_vars
    /\ UNCHANGED firmware_vars
    /\ UNCHANGED crate_vars
    /\ UNCHANGED run_vars
    /\ UNCHANGED fifo_vars
    /\ UNCHANGED cmd_vars
    /\ UNCHANGED mask_vars

CommsNext ==
    \/ \E c \in Callers : \E op \in {"boot", "done"} : CommsCall(c, op)
    \/ \E c \in Callers : CommsGuard(c)
    \/ \E c \in Callers : CommsAccess(c)
    \/ \E c \in Callers : \E thrown \in BOOLEAN : CommsLeave(c, thrown)

\* ========================================================================
\* List-mode run drivers: execute_list_mode_run of the JSON example, of the
\* legacy example and of the utility
\* ========================================================================

Drivers == {"json", "legacy", "utility"}

\* Pixie16CheckRunStatus(m) == 1
run_active(m) == rd_status[m] = "active"

\* Pixie16StartListModeRun(num_modules, LIST_MODE_RUN, NEW_RUN); a failing
\* call returns false.  The JSON example and the utility go on to their
\* one second sleep, the legacy example straight to its collection loop.
RunStart(d, ok) ==
    /\ rd_pc = "entry"
    /\ rd_driver' = d
    /\ IF ok
         THEN /\ rd_status' = [m \in Modules |-> "starting"]
              /\ rd_pc' = IF d = "legacy" THEN "loop_test" ELSE "wait"
              /\ UNCHANGED rd_result
         ELSE /\ rd_pc' = "returned"
              /\ rd_result' = "false"
              /\ UNCHANGED rd_status
    /\ UNCHANGED <<rd_waited, rd_run_status, rd_polls, rd_counter, rd_k,
                   rd_sweep, rd_all_finished>>
    /\ UNCHANGED role_vars
    /\ UNCHANGED sync_vars
    /\ UNCHANGED pool_vars
    /\ UNCHANGED queue_vars
    /\ UNCHANGED thread_vars
    /\ UNCHANGED worker_vars
    /\ UNCHANGED error_vars
    /\ UNCHANGED firmware_vars
    /\ UNCHANGED crate_vars
    /\ UNCHANGED comms_vars
    /\ UNCHANGED fifo_vars
    /\ UNCHANGED cmd_vars
    /\ UNCHANGED mask_vars

\* std::this_thread::sleep_for(1000 ms) / sleep(1) after the start.
RunWait ==
    /\ rd_pc = "wait"
    /\ rd_waited' = TRUE
    /\ rd_pc' = IF rd_driver = "json" THEN "first_status" ELSE "loop_test"
    /\ UNCHANGED <<rd_driver, rd_status, rd_run_status, rd_polls, rd_counter,
                   rd_k, rd_sweep, rd_all_finished, rd_result>>
    /\ UNCHANGED role_vars
    /\ UNCHANGED sync_vars
    /\ UNCHANGED pool_vars
    /\ UNCHANGED queue_vars
    /\ UNCHANGED thread_vars
    /\ UNCHANGED worker_vars
    /\ UNCHANGED error_vars
    /\ UNCHANGED firmware_vars
    /\ UNCHANGED crate_vars
    /\ UNCHANGED comms_vars
    /\ UNCHANGED fifo_vars
    /\ UNCHANGED cmd_vars
    /\ UNCHANGED mask_vars

\* bool run_status = Pixie16CheckRunStatus(cfg.modules[0].number);
RunFirstStatus ==
    /\ rd_pc = "first_status"
    /\ rd_run_status' = run_active(0)
    /\ rd_pc' = "loop_test"
    /\ UNCHANGED <<rd_driver, rd_status, rd_waited, rd_polls, rd_counter,
                   rd_k, rd_sweep, rd_all_finished, rd_result>>
    /\ UNCHANGED role_vars
    /\ UNCHANGED sync_vars
    /\ UNCHANGED pool_vars
    /\ UNCHANGED queue_vars
    /\ UNCHANGED thread_vars
    /\ UNCHANGED worker_vars
    /\ UNCHANGED error_vars
    /\ UNCHANGED firmware_vars
    /\ UNCHANGED crate_vars
    /\ UNCHANGED comms_vars
    /\ UNCHANGED fifo_vars
    /\ UNCHANGED cmd_vars
    /\ UNCHANGED mask_vars

\* The head of the collection loop.  JSON example: while (run_status != 0),
\* then the test of the run time, which leads to Pixie16EndRun and break.
\* Legacy example and utility: while (elapsed < runtime_in_seconds), with
\* Pixie16EndRun after the loop.  `timeup` is what the clock says.
RunLoopTest(timeup) ==
    /\ rd_pc = "loop_test"
    /\ rd_polls = MaxPolls => timeup
    /\ rd_pc' = IF rd_driver = "json" /\ ~rd_run_status THEN "finalize"
                ELSE IF timeup THEN "end_run"
                ELSE "poll"
    /\ UNCHANGED <<rd_driver, rd_status, rd_waited, rd_run_status, rd_polls,
                   rd_counter, rd_k, rd_sweep, rd_all_finished, rd_result>>
    /\ UNCHANGED role_vars
    /\ UNCHANGED sync_vars
    /\ UNCHANGED pool_vars
    /\ UNCHANGED queue_vars
    /\ UNCHANGED thread_vars
    /\ UNCHANGED worker_vars
    /\ UNCHANGED error_vars
    /\ UNCHANGED firmware_vars
    /\ UNCHANGED crate_vars
    /\ UNCHANGED comms_vars
    /\ UNCHANGED fifo_vars
    /\ UNCHANGED cmd_vars
    /\ UNCHANGED mask_vars

\* The for loop over the modules in the collection loop: the examples read
\* the FIFO of every module whose run is active and return false when a
\* call fails; the utility saves every module's FIFO and, when a call
\* fails, breaks out of the for loop only.
RunPollModules(ok) ==
    /\ rd_pc = "poll"
    /\ ~ok => (rd_driver = "utility" \/ \E m \in Modules : run_active(m))
    /\ rd_polls' = rd_polls + 1
    /\ IF ok \/ rd_driver = "utility"
         THEN /\ rd_pc' = "director_check"
              /\ UNCHANGED rd_result
         ELSE /\ rd_pc' = "returned"
              /\ rd_result' = "false"
    /\ UNCHANGED <<rd_driver, rd_status, rd_waited, rd_run_status, rd_counter,
                   rd_k, rd_sweep, rd_all_finished>>
    /\ UNCHANGED role_vars
    /\ UNCHANGED sync_vars
    /\ UNCHANGED pool_vars
    /\ UNCHANGED queue_vars
    /\ UNCHANGED thread_vars
    /\ UNCHANGED worker_vars
    /\ UNCHANGED error_vars
    /\ UNCHANGED firmware_vars
    /\ UNCHANGED crate_vars
    /\ UNCHANGED comms_vars
    /\ UNCHANGED fifo_vars
    /\ UNCHANGED cmd_vars
    /\ UNCHANGED mask_vars

\* The run status check of the director module at the end of the loop body:
\* run_status = Pixie16CheckRunStatus(...) in the JSON example,
\* if (Pixie16CheckRunStatus(0) == 0) break in the other two.
RunDirectorCheck ==
    /\ rd_pc = "director_check"
    /\ IF rd_driver = "json"
         THEN /\ rd_run_status' = run_active(0)
              /\ rd_pc' = "loop_test"
         ELSE /\ rd_pc' = IF run_active(0) THEN "loop_test" ELSE "end_run"
              /\ UNCHANGED rd_run_status
    /\ UNCHANGED <<rd_driver, rd_status, rd_waited, rd_polls, rd_counter,
                   rd_k, rd_sweep, rd_all_finished, rd_result>>
    /\ UNCHANGED role_vars
    /\ UNCHANGED sync_vars
    /\ UNCHANGED pool_vars
    /\ UNCHANGED queue_vars
    /\ UNCHANGED thread_vars
    /\ UNCHANGED worker_vars
    /\ UNCHANGED error_vars
    /\ UNCHANGED firmware_vars
    /\ UNCHANGED crate_vars
    /\ UNCHANGED comms_vars
    /\ UNCHANGED fifo_vars
    /\ UNCHANGED cmd_vars
    /\ UNCHANGED mask_vars

\* Pixie16EndRun: of every module (`all`, JSON example with synch_wait 0)
\* or of the director module 0.  A failing call returns false.
RunEndRun(all, ok) ==
    /\ rd_pc = "end_run"
    /\ all => rd_driver = "json"
    /\ IF ok
         THEN /\ rd_status' = [m \in Modules |->
                                 IF all \/ m = 0 THEN "stopped"
                                 ELSE rd_status[m]]
              /\ rd_pc' = IF rd_driver = "utility" THEN "utility_finalize"
                          ELSE "finalize"
              /\ UNCHANGED rd_result
         ELSE /\ rd_pc' = "returned"
              /\ rd_result' = "false"
              /\ UNCHANGED rd_status
    /\ UNCHANGED <<rd_driver, rd_waited, rd_run_status, rd_polls, rd_counter,
                   rd_k, rd_sweep, rd_all_finished>>
    /\ UNCHANGED role_vars
    /\ UNCHANGED sync_vars
    /\ UNCHANGED pool_vars
    /\ UNCHANGED queue_vars
    /\ UNCHANGED thread_vars
    /\ UNCHANGED worker_vars
    /\ UNCHANGED error_vars
    /\ UNCHANGED firmware_vars
    /\ UNCHANGED crate_vars
    /\ UNCHANGED comms_vars
    /\ UNCHANGED fifo_vars
    /\ UNCHANGED cmd_vars
    /\ UNCHANGED mask_vars

\* One pass of the inner for loop of the examples' finalize check:
\* all_modules_finished = (Pixie16CheckRunStatus(k) != 1).
RunFinalizeCheck ==
    /\ rd_pc = "finalize"
    /\ rd_k < NumModules
    /\ rd_all_finished' = ~run_active(rd_k)
    /\ rd_sweep' = [rd_sweep EXCEPT
                      ![rd_k] = IF run_active(rd_k) THEN "active"
                                ELSE "inactive"]
    /\ rd_k' = rd_k + 1
    /\ UNCHANGED <<rd_driver, rd_pc, rd_status, rd_waited, rd_run_status,
                   rd_polls, rd_counter, rd_result>>
    /\ UNCHANGED role_vars
    /\ UNCHANGED sync_vars
    /\ UNCHANGED pool_vars
    /\ UNCHANGED queue_vars
    /\ UNCHANGED thread_vars
    /\ UNCHANGED worker_vars
    /\ UNCHANGED error_vars
    /\ UNCHANGED firmware_vars
    /\ UNCHANGED crate_vars
    /\ UNCHANGED comms_vars
    /\ UNCHANGED fifo_vars
    /\ UNCHANGED cmd_vars
    /\ UNCHANGED mask_vars

\* The end of one sweep: break when all_modules_finished, else sleep and
\* count the attempt; the loop ends after max_finalize_attempts sweeps.
RunFinalizeSweepEnd ==
    /\ rd_pc = "finalize"
    /\ rd_k = NumModules
    /\ IF rd_all_finished
         THEN /\ rd_pc' = "after_finalize"
              /\ UNCHANGED <<rd_counter, rd_k, rd_sweep>>
         ELSE /\ rd_counter' = rd_counter + 1
              /\ IF rd_counter + 1 < MaxFinalizeAttempts
                   THEN /\ rd_k' = 0
                        /\ rd_sweep' = [m \in Modules |-> "unread"]
                        /\ UNCHANGED rd_pc
                   ELSE /\ rd_pc' = "after_finalize"
                        /\ UNCHANGED <<rd_k, rd_sweep>>
    /\ UNCHANGED <<rd_driver, rd_status, rd_waited, rd_run_status, rd_polls,
                   rd_all_finished, rd_result>>
    /\ UNCHANGED role_vars
    /\ UNCHANGED sync_vars
    /\ UNCHANGED pool_vars
    /\ UNCHANGED queue_vars
    /\ UNCHANGED thread_vars
    /\ UNCHANGED worker_vars
    /\ UNCHANGED error_vars
    /\ UNCHANGED firmware_vars
    /\ UNCHANGED crate_vars
    /\ UNCHANGED comms_vars
    /\ UNCHANGED fifo_vars
    /\ UNCHANGED cmd_vars
    /\ UNCHANGED mask_vars

\* if (!all_modules_finished) return false; otherwise the final FIFO and
\* statistics reads, which return false when a call fails, and return true.
RunReturn(ok) ==
    /\ rd_pc = "after_finalize"
    /\ rd_pc' = "returned"
    /\ rd_result' = IF rd_all_finished /\ ok THEN "true" ELSE "false"
    /\ UNCHANGED <<rd_driver, rd_status, rd_waited, rd_run_status, rd_polls,
                   rd_counter, rd_k, rd_sweep, rd_all_finished>>
    /\ UNCHANGED role_vars
    /\ UNCHANGED sync_vars
    /\ UNCHANGED pool_vars
    /\ UNCHANGED queue_vars
    /\ UNCHANGED thread_vars
    /\ UNCHANGED worker_vars
    /\ UNCHANGED error_vars
    /\ UNCHANGED firmware_vars
    /\ UNCHANGED crate_vars
    /\ UNCHANGED comms_vars
    /\ UNCHANGED fifo_vars
    /\ UNCHANGED cmd_vars
    /\ UNCHANGED mask_vars

\* The utility's finalize loop: for every module, up to the attempt limit,
\* save the FIFO while the run status is not 0; a failing save returns
\* false.  After the last module the final saves and return true.
RunUtilityFinalize(ok) ==
    /\ rd_pc = "utility_finalize"
    /\ IF rd_k < NumModules
         THEN IF run_active(rd_k)
                THEN IF ok
                       THEN /\ IF rd_counter + 1 < MaxFinalizeAttempts
                                 THEN /\ rd_counter' = rd_counter + 1
                                      /\ UNCHANGED rd_k
                                 ELSE /\ rd_counter' = 0
                                      /\ rd_k' = rd_k + 1
                            /\ UNCHANGED <<rd_pc, rd_result>>
                       ELSE /\ rd_pc' = "returned"
                            /\ rd_result' = "false"
                            /\ UNCHANGED <<rd_counter, rd_k>>
                ELSE /\ ok
                     /\ rd_counter' = 0
                     /\ rd_k' = rd_k + 1
                     /\ UNCHANGED <<rd_pc, rd_result>>
         ELSE /\ rd_pc' = "returned"
              /\ rd_result' = IF ok THEN "true" ELSE "false"
              /\ UNCHANGED <<rd_counter, rd_k>>
    /\ UNCHANGED <<rd_driver, rd_status, rd_waited, rd_run_status, rd_polls,
                   rd_sweep, rd_all_finished>>
    /\ UNCHANGED role_vars
    /\ UNCHANGED sync_vars
    /\ UNCHANGED pool_vars
    /\ UNCHANGED queue_vars
    /\ UNCHANGED thread_vars
    /\ UNCHANGED worker_vars
    /\ UNCHANGED error_vars
    /\ UNCHANGED firmware_vars
    /\ UNCHANGED crate_vars
    /\ UNCHANGED comms_vars
    /\ UNCHANGED fifo_vars
    /\ UNCHANGED cmd_vars
    /\ UNCHANGED mask_vars

\* The DSP of a started module begins its run.
DspReady(m) ==
    /\ rd_pc # "returned"
    /\ rd_status[m] = "starting"
    /\ rd_status' = [rd_status EXCEPT ![m] = "active"]
    /\ UNCHANGED <<rd_driver, rd_pc, rd_waited, rd_run_status, rd_polls,
                   rd_counter, rd_k, rd_sweep, rd_all_finished, rd_result>>
    /\ UNCHANGED role_vars
    /\ UNCHANGED sync_vars
    /\ UNCHANGED pool_vars
    /\ UNCHANGED queue_vars
    /\ UNCHANGED thread_vars
    /\ UNCHANGED worker_vars
    /\ UNCHANGED error_vars
    /\ UNCHANGED firmware_vars
    /\ UNCHANGED crate_vars
    /\ UNCHANGED comms_vars
    /\ UNCHANGED fifo_vars
    /\ UNCHANGED cmd_vars
    /\ UNCHANGED mask_vars

\* The run of a module ends: after the director's end of run through the
\* SYNC interrupt, or stopped by another chassis.
DspStop(m) ==
    /\ rd_pc # "returned"
    /\ rd_status[m] = "active"
    /\ rd_status' = [rd_status EXCEPT ![m] = "stopped"]
    /\ UNCHANGED <<rd_driver, rd_pc, rd_waited, rd_run_status, rd_polls,
                   rd_counter, rd_k, rd_sweep, rd_all_finished, rd_result>>
    /\ UNCHANGED role_vars
    /\ UNCHANGED sync_vars
    /\ UNCHANGED pool_vars
    /\ UNCHANGED queue_vars
    /\ UNCHANGED thread_vars
    /\ UNCHANGED worker_vars
    /\ UNCHANGED error_vars
    /\ UNCHANGED firmware_vars
    /\ UNCHANGED crate_vars
    /\ UNCHANGED comms_vars
    /\ UNCHANGED fifo_vars
    /\ UNCHANGED cmd_vars
    /\ UNCHANGED mask_vars

RunNext ==
    \/ \E d \in Drivers : \E ok \in BOOLEAN : RunStart(d, ok)
    \/ RunWait
    \/ RunFirstStatus
    \/ \E timeup \in BOOLEAN : RunLoopTest(timeup)
    \/ \E ok \in BOOLEAN : RunPollModules(ok)
    \/ RunDirectorCheck
    \/ \E all \in BOOLEAN : \E ok \in BOOLEAN : RunEndRun(all, ok)
    \/ RunFinalizeCheck
    \/ RunFinalizeSweepEnd
    \/ \E ok \in BOOLEAN : RunReturn(ok)
    \/ \E ok \in BOOLEAN : RunUtilityFinalize(ok)
    \/ \E m \in Modules : DspReady(m)
    \/ \E m \in Modules : DspStop(m)

\* ========================================================================
\* test_fifo_worker: the FIFO test worker thread of one module
\* ========================================================================

NoTestCalls == [start_test |-> 0, level |-> 0, read |-> 0, end_test |-> 0]

\* test(): t.length = bytes / sizeof(word) for every worker, before
\* module_threads starts the threads.
TfConfigure(length) ==
    /\ tf_pc = "constructed"
    /\ tf_length' = length
    /\ tf_pc' = "start"
    /\ UNCHANGED <<tf_total, tf_calls, tf_has_error>>
    /\ UNCHANGED role_vars
    /\ UNCHANGED sync_vars
    /\ UNCHANGED pool_vars
    /\ UNCHANGED queue_vars
    /\ UNCHANGED thread_vars
    /\ UNCHANGED worker_vars
    /\ UNCHANGED error_vars
    /\ UNCHANGED firmware_vars
    /\ UNCHANGED crate_vars
    /\ UNCHANGED comms_vars
    /\ UNCHANGED run_vars
    /\ UNCHANGED cmd_vars
    /\ UNCHANGED mask_vars

\* module.start_test(lm_fifo) returns, then period.start(); or it throws
\* and control goes to the catch (...) handler.
TfStart(ok) ==
    /\ tf_pc = "start"
    /\ tf_calls' = [tf_calls EXCEPT !.start_test = tf_calls.start_test + 1]
    /\ tf_pc' = IF ok THEN "loop" ELSE "catch"
    /\ UNCHANGED <<tf_length, tf_total, tf_has_error>>
    /\ UNCHANGED role_vars
    /\ UNCHANGED sync_vars
    /\ UNCHANGED pool_vars
    /\ UNCHANGED queue_vars
    /\ UNCHANGED thread_vars
    /\ UNCHANGED worker_vars
    /\ UNCHANGED error_vars
    /\ UNCHANGED firmware_vars
    /\ UNCHANGED crate_vars
    /\ UNCHANGED comms_vars
    /\ UNCHANGED run_vars
    /\ UNCHANGED cmd_vars
    /\ UNCHANGED mask_vars

\* while (total < length)
TfLoopTest ==
    /\ tf_pc = "loop"
    /\ tf_pc' = IF tf_total < tf_length THEN "level" ELSE "end"
    /\ UNCHANGED <<tf_length, tf_total, tf_calls, tf_has_error>>
    /\ UNCHANGED role_vars
    /\ UNCHANGED sync_vars
    /\ UNCHANGED pool_vars
    /\ UNCHANGED queue_vars
    /\ UNCHANGED thread_vars
    /\ UNCHANGED worker_vars
    /\ UNCHANGED error_vars
    /\ UNCHANGED firmware_vars
    /\ UNCHANGED crate_vars
    /\ UNCHANGED comms_vars
    /\ UNCHANGED run_vars
    /\ UNCHANGED cmd_vars
    /\ UNCHANGED mask_vars

\* module.read_list_mode_level() returns data_available, or throws; with
\* no data the worker waits for the poll period.
TfLevel(data_available, ok) ==
    /\ tf_pc = "level"
    /\ tf_calls.level < MaxPolls
    /\ tf_calls' = [tf_calls EXCEPT !.level = tf_calls.level + 1]
    /\ tf_pc' = IF ~ok THEN "catch"
                ELSE IF data_available > 0 THEN "read"
                ELSE "loop"
    /\ UNCHANGED <<tf_length, tf_total, tf_has_error>>
    /\ UNCHANGED role_vars
    /\ UNCHANGED sync_vars
    /\ UNCHANGED pool_vars
    /\ UNCHANGED queue_vars
    /\ UNCHANGED thread_vars
    /\ UNCHANGED worker_vars
    /\ UNCHANGED error_vars
    /\ UNCHANGED firmware_vars
    /\ UNCHANGED crate_vars
    /\ UNCHANGED comms_vars
    /\ UNCHANGED run_vars
    /\ UNCHANGED cmd_vars
    /\ UNCHANGED mask_vars

\* module.read_list_mode(lm) returns n words, total += lm.size() and the
\* words are written; or it throws.
TfRead(n, ok) ==
    /\ tf_pc = "read"
    /\ tf_calls' = [tf_calls EXCEPT !.read = tf_calls.read + 1]
    /\ IF ok
         THEN /\ tf_total' = tf_total + n
              /\ tf_pc' = "loop"
         ELSE /\ tf_pc' = "catch"
              /\ UNCHANGED tf_total
    /\ UNCHANGED <<tf_length, tf_has_error>>
    /\ UNCHANGED role_vars
    /\ UNCHANGED sync_vars
    /\ UNCHANGED pool_vars
    /\ UNCHANGED queue_vars
    /\ UNCHANGED thread_vars
    /\ UNCHANGED worker_vars
    /\ UNCHANGED error_vars
    /\ UNCHANGED firmware_vars
    /\ UNCHANGED crate_vars
    /\ UNCHANGED comms_vars
    /\ UNCHANGED run_vars
    /\ UNCHANGED cmd_vars
    /\ UNCHANGED mask_vars

\* After the loop: period.end(); module.end_test(); out.close() and the
\* worker returns; a throwing end_test goes to the catch (...) handler.
TfEnd(ok) ==
    /\ tf_pc = "end"
    /\ tf_calls' = [tf_calls EXCEPT !.end_test = tf_calls.end_test + 1]
    /\ tf_pc' = IF ok THEN "returned" ELSE "catch"
    /\ UNCHANGED <<tf_length, tf_total, tf_has_error>>
    /\ UNCHANGED role_vars
    /\ UNCHANGED sync_vars
    /\ UNCHANGED pool_vars
    /\ UNCHANGED queue_vars
    /\ UNCHANGED thread_vars
    /\ UNCHANGED worker_vars
    /\ UNCHANGED error_vars
    /\ UNCHANGED firmware_vars
    /\ UNCHANGED crate_vars
    /\ UNCHANGED comms_vars
    /\ UNCHANGED run_vars
    /\ UNCHANGED cmd_vars
    /\ UNCHANGED mask_vars

\* catch (...): period.end(); has_error = true; module.end_test(); throw.
\* The worker ends with the exception caught, or with the one end_test
\* throws here.
TfCatch ==
    /\ tf_pc = "catch"
    /\ tf_has_error' = TRUE
    /\ tf_calls' = [tf_calls EXCEPT !.end_test = tf_calls.end_test + 1]
    /\ tf_pc' = "thrown"
    /\ UNCHANGED <<tf_length, tf_total>>
    /\ UNCHANGED role_vars
    /\ UNCHANGED sync_vars
    /\ UNCHANGED pool_vars
    /\ UNCHANGED queue_vars
    /\ UNCHANGED thread_vars
    /\ UNCHANGED worker_vars
    /\ UNCHANGED error_vars
    /\ UNCHANGED firmware_vars
    /\ UNCHANGED crate_vars
    /\ UNCHANGED comms_vars
    /\ UNCHANGED run_vars
    /\ UNCHANGED cmd_vars
    /\ UNCHANGED mask_vars

FifoNext ==
    \/ \E length \in 1 .. MaxLength : TfConfigure(length)
    \/ \E ok \in BOOLEAN : TfStart(ok)
    \/ TfLoopTest
    \/ \E data_available \in 0 .. MaxRead : \E ok \in BOOLEAN :
          TfLevel(data_available, ok)
    \/ \E n \in 1 .. MaxRead : \E ok \in BOOLEAN : TfRead(n, ok)
    \/ \E ok \in BOOLEAN : TfEnd(ok)
    \/ TfCatch

\* ========================================================================
\* process_commands: the command loop of the command line tool
\* ========================================================================

\* Words of a command line: names of commands, aliases, and a word that
\* names no command.
Options == {"boot", "b", "stats", "st", "wait", "bogus"}

\* The boot requirement strings of the command table, as characters.
init_probe == <<"i", "n", "i", "t", ",", "p", "r", "o", "b", "e">>

none == <<"n", "o", "n", "e">>

\* The entries of `commands` the options reach: name, aliases and boot.
commands ==
    {[name |-> "boot", aliases |-> {"b"}, boot |-> init_probe],
     [name |-> "stats", aliases |-> {"st"}, boot |-> init_probe],
     [name |-> "wait", aliases |-> {}, boot |-> none]}

\* commands.end()
commands_end == [name |-> "", aliases |-> {}, boot |-> <<>>]

\* find_command(opt): the entry whose name or one of whose aliases is opt.
find_command(opt) ==
    IF \E cmd \in commands : cmd.name = opt \/ opt \in cmd.aliases
      THEN CHOOSE cmd \in commands : cmd.name = opt \/ opt \in cmd.aliases
      ELSE commands_end

valid_command(fci) == fci # commands_end

\* s.find(word) != std::string::npos
string_find(str, word) ==
    \E i \in 1 .. Len(str) :
       /\ i + Len(word) - 1 <= Len(str)
       /\ SubSeq(str, i, i + Len(word) - 1) = word

\* One pass of the while loop for an option that names a command: the
\* initialize test, the probe test and the call of the handler.  Each of
\* initialize, probe and the handler returns or throws; a throw leaves
\* process_commands.
CommandPass(opt, init_ok, probe_ok, call_ok) ==
    LET cmd == find_command(opt)
        run_init == ~cp_init_done /\ string_find(cmd.boot, <<"i", "n", "i", "t">>)
        init_done == cp_init_done \/ (run_init /\ init_ok)
        run_probe == /\ run_init => init_ok
                     /\ ~init_done
                     /\ string_find(cmd.boot, <<"p", "r", "o", "b", "e">>)
        probe_done == cp_probe_done \/ (run_probe /\ probe_ok)
        called == (run_init => init_ok) /\ (run_probe => probe_ok)
        calls == [initialize |-> cp_calls.initialize
                                   + (IF run_init THEN 1 ELSE 0),
                  probe |-> cp_calls.probe + (IF run_probe THEN 1 ELSE 0)]
    IN  /\ cp_state = "running"
        /\ Len(cp_log) < MaxCommands
        /\ valid_command(cmd)
        /\ ~run_init => init_ok
        /\ ~run_probe => probe_ok
        /\ ~called => call_ok
        /\ cp_init_done' = init_done
        /\ cp_probe_done' = probe_done
        /\ cp_calls' = calls
        /\ cp_log' = IF called
                       THEN Append(cp_log, [cmd |-> cmd.name,
                                            initialize |-> calls.initialize,
                                            probe |-> calls.probe])
                       ELSE cp_log
        /\ cp_state' = IF called /\ call_ok THEN "running" ELSE "thrown"
    /\ UNCHANGED role_vars
    /\ UNCHANGED sync_vars
    /\ UNCHANGED pool_vars
    /\ UNCHANGED queue_vars
    /\ UNCHANGED thread_vars
    /\ UNCHANGED worker_vars
    /\ UNCHANGED error_vars
    /\ UNCHANGED firmware_vars
    /\ UNCHANGED crate_vars
    /\ UNCHANGED comms_vars
    /\ UNCHANGED run_vars
    /\ UNCHANGED fifo_vars
    /\ UNCHANGED mask_vars

\* An option that names no command: throw std::runtime_error.
CommandInvalid(opt) ==
    /\ cp_state = "running"
    /\ ~valid_command(find_command(opt))
    /\ cp_state' = "thrown"
    /\ UNCHANGED <<cp_init_done, cp_probe_done, cp_calls, cp_log>>
    /\ UNCHANGED role_vars
    /\ UNCHANGED sync_vars
    /\ UNCHANGED pool_vars
    /\ UNCHANGED queue_vars
    /\ UNCHANGED thread_vars
    /\ UNCHANGED worker_vars
    /\ UNCHANGED error_vars
    /\ UNCHANGED firmware_vars
    /\ UNCHANGED crate_vars
    /\ UNCHANGED comms_vars
    /\ UNCHANGED run_vars
    /\ UNCHANGED fifo_vars
    /\ UNCHANGED mask_vars

\* ci == ce: the loop ends and process_commands returns.
CommandsEnd ==
    /\ cp_state = "running"
    /\ cp_state' = "returned"
    /\ UNCHANGED <<cp_init_done, cp_probe_done, cp_calls, cp_log>>
    /\ UNCHANGED role_vars
    /\ UNCHANGED sync_vars
    /\ UNCHANGED pool_vars
    /\ UNCHANGED queue_vars
    /\ UNCHANGED thread_vars
    /\ UNCHANGED worker_vars
    /\ UNCHANGED error_vars
    /\ UNCHANGED firmware_vars
    /\ UNCHANGED crate_vars
    /\ UNCHANGED comms_vars
    /\ UNCHANGED run_vars
    /\ UNCHANGED fifo_vars
    /\ UNCHANGED mask_vars

CommandNext ==
    \/ \E opt \in Options : \E init_ok, probe_ok, call_ok \in BOOLEAN :
          CommandPass(opt, init_ok, probe_ok, call_ok)
    \/ \E opt \in Options : CommandInvalid(opt)
    \/ CommandsEnd

\* ========================================================================
\* Copy filter masks of the channel variables
\* ========================================================================

\* a << n; no shift of the masks reaches the width of unsigned int.
RECURSIVE shift_left(_, _)
shift_left(a, n) == IF n = 0 THEN a ELSE shift_left(2 * a, n - 1)

\* a & b
RECURSIVE bit_and(_, _)
bit_and(a, b) ==
    IF a = 0 \/ b = 0 THEN 0
    ELSE (a % 2) * (b % 2) + 2 * bit_and(a \div 2, b \div 2)

\* a | b
bit_or(a, b) == a + b - bit_and(a, b)

energy_mask == shift_left(1, 0)

trigger_mask == shift_left(1, 1)

analog_signal_cond_mask == shift_left(1, 2)

histogram_control_mask == shift_left(1, 3)

decay_time_mask == shift_left(1, 4)

pulse_shape_analysis_mask == shift_left(1, 5)

baseline_control_mask == shift_left(1, 6)

channel_csra_mask == shift_left(1, 7)

cfd_trigger_mask == shift_left(1, 8)

trigger_stretch_len_mask == shift_left(1, 9)

fifo_delays_mask == shift_left(1, 10)

multiplicity_mask == shift_left(1, 11)

qdc_mask == shift_left(1, 12)

all_mask == shift_left(1, 12) - 1

\* The mask of every filter group.
group_masks ==
    [energy |-> energy_mask,
     trigger |-> trigger_mask,
     analog_signal_cond |-> analog_signal_cond_mask,
     histogram_control |-> histogram_control_mask,
     decay_time |-> decay_time_mask,
     pulse_shape_analysis |-> pulse_shape_analysis_mask,
     baseline_control |-> baseline_control_mask,
     channel_csra |-> channel_csra_mask,
     cfd_trigger |-> cfd_trigger_mask,
     trigger_stretch_len |-> trigger_stretch_len_mask,
     fifo_delays |-> fifo_delays_mask,
     multiplicity |-> multiplicity_mask,
     qdc |-> qdc_mask]

FilterGroups == DOMAIN group_masks

\* The filter groups a copy with filter mask `mask` selects.
selected_groups(mask) ==
    {g \in FilterGroups : bit_and(mask, group_masks[g]) # 0}

\* The caller adds a filter group to the mask of its next copy.
MaskAdd(g) ==
    /\ cf_mask' = bit_or(cf_mask, group_masks[g])
    /\ cf_mask' # cf_mask
    /\ cf_copied' = FALSE
    /\ cf_selected' = {}
    /\ UNCHANGED role_vars
    /\ UNCHANGED sync_vars
    /\ UNCHANGED pool_vars
    /\ UNCHANGED queue_vars
    /\ UNCHANGED thread_vars
    /\ UNCHANGED worker_vars
    /\ UNCHANGED error_vars
    /\ UNCHANGED firmware_vars
    /\ UNCHANGED crate_vars
    /\ UNCHANGED comms_vars
    /\ UNCHANGED run_vars
    /\ UNCHANGED fifo_vars
    /\ UNCHANGED cmd_vars

\* The caller asks for a copy of everything: all_mask.
MaskAll ==
    /\ cf_mask' = all_mask
    /\ cf_copied' = FALSE
    /\ cf_selected' = {}
    /\ UNCHANGED role_vars
    /\ UNCHANGED sync_vars
    /\ UNCHANGED pool_vars
    /\ UNCHANGED queue_vars
    /\ UNCHANGED thread_vars
    /\ UNCHANGED worker_vars
    /\ UNCHANGED error_vars
    /\ UNCHANGED firmware_vars
    /\ UNCHANGED crate_vars
    /\ UNCHANGED comms_vars
    /\ UNCHANGED run_vars
    /\ UNCHANGED fifo_vars
    /\ UNCHANGED cmd_vars

\* A copy of the channel variables with filter mask cf_mask.
MaskCopy ==
    /\ ~cf_copied
    /\ cf_copied' = TRUE
    /\ cf_selected' = selected_groups(cf_mask)
    /\ UNCHANGED cf_mask
    /\ UNCHANGED role_vars
    /\ UNCHANGED sync_vars
    /\ UNCHANGED pool_vars
    /\ UNCHANGED queue_vars
    /\ UNCHANGED thread_vars
    /\ UNCHANGED worker_vars
    /\ UNCHANGED error_vars
    /\ UNCHANGED firmware_vars
    /\ UNCHANGED crate_vars
    /\ UNCHANGED comms_vars
    /\ UNCHANGED run_vars
    /\ UNCHANGED fifo_vars
    /\ UNCHANGED cmd_vars

MaskNext ==
    \/ \E g \in FilterGroups : MaskAdd(g)
    \/ MaskAll
    \/ MaskCopy

\* ========================================================================
\* Properties of the backplane roles (SpecRole)
\* ========================================================================
IsDone(m, op) == call[m].stage = "done" /\ call[m].op = op

\* C1: role.request(m) returns true iff the leader is `released` at the
\* moment of the call's compare-exchange; while a module w holds the role
\* (its request returned true and it has not released since) the leader
\* equals w, and every request by another module returns false and leaves the
\* leader equal to w.
C1_RequestIffReleased ==
    /\ [](\A w \in Modules : holds[w] => leader = w)
    /\ [][\A m \in Modules : RequestCAS(m) =>
            /\ call'[m].ret <=> (leader = released)
            /\ \A w \in Modules \ {m} :
                 holds[w] => ~call'[m].ret /\ leader' = w /\ holds'[w]]_vars

\* A request by another module has returned false against a holder.
C1_Witness ==
    \E w \in Modules : \E m \in Modules \ {w} :
        /\ holds[w]
        /\ leader = w
        /\ IsDone(m, "request")
        /\ ~call[m].ret
        /\ call[m].expected = w

\* Two requests whose outcome was settled between the two callers: each
\* either returned true or returned false having seen the other as leader.
Contended(m1, m2) ==
    /\ m1 # m2
    /\ IsDone(m1, "request") /\ call[m1].free
    /\ IsDone(m2, "request") /\ call[m2].free
    /\ call[m1].ret \/ call[m1].expected = m2
    /\ call[m2].ret \/ call[m2].expected = m1

\* C2: when two distinct modules call request concurrently on a released
\* role, exactly one call returns true and the other returns false, in every
\* interleaving; once the winner's release has put the role back to
\* `released`, the loser's retried request returns true.
C2_ExactlyOneWinner ==
    /\ [](\A m1, m2 \in Modules :
            Contended(m1, m2) => (call[m1].ret # call[m2].ret))
    /\ [][\A w \in Modules : ReleaseCAS(w) /\ holds[w] =>
            call'[w].ret /\ leader' = released]_vars
    /\ [][\A m \in Modules :
            RequestCAS(m) /\ call[m].retry # "no" /\ leader = released =>
               call'[m].ret /\ leader' = m]_vars

\* On the run role the loser of a race retried after the winner's release
\* and its request returned true.
C2_Witness ==
    /\ label = "run"
    /\ \E w \in Modules : \E m \in Modules \ {w} :
        /\ IsDone(w, "release") /\ call[w].ret
        /\ IsDone(m, "request") /\ call[m].retry = "lost_race" /\ call[m].ret
        /\ leader = m

\* C3: role.release(m) returns true and sets the leader to `released` iff
\* the leader equals m at the call's compare-exchange; otherwise (another
\* module leads, or the role is released) it returns false and leaves the
\* leader unchanged.
C3_ReleaseIffLeader ==
    [][\A m \in Modules : ReleaseCAS(m) =>
         /\ call'[m].ret <=> (leader = m)
         /\ (leader = m) => leader' = released
         /\ (leader # m) => leader' = leader]_vars

\* A release by a module that is not the leader has returned false and the
\* leader is still in place.
C3_Witness ==
    \E w \in Modules : \E m \in Modules \ {w} :
        /\ IsDone(m, "release")
        /\ ~call[m].ret
        /\ call[m].expected = w
        /\ leader = w

\* C4: role.not_leader(m) returns true exactly when the leader the call
\* observes is a module other than m: it returns false both when m is the
\* leader and when the role is released.
C4_NotLeader ==
    \A m \in Modules :
        IsDone(m, "not_leader") =>
            (call[m].ret <=> (call[m].expected \in Modules \ {m}))

\* The three cases have been returned: held by another module (true), held
\* by the caller (false), released (false).
C4_Witness ==
    \E m1, m2, m3 \in Modules :
        /\ IsDone(m1, "not_leader") /\ call[m1].ret
        /\ IsDone(m3, "not_leader") /\ ~call[m3].ret
        /\ call[m3].expected \in {m3, released}
        /\ m2 # m1 /\ call[m1].expected = m2

\* ========================================================================
\* Properties of the sync-wait consensus (SpecSync)
\* ========================================================================
\* No sync_wait call is in progress.
SyncQuiescent == \A m \in Modules : sync_call[m].stage = "idle"

\* C5: whenever no sync_wait call is in progress, sync_waits equals the
\* number of true entries of sync_waiters and lies in 0 .. |sync_waiters|;
\* no sync_wait call ever raises internal_failure.
C5_SyncWaitsIsPopcount ==
    /\ SyncQuiescent =>
         /\ sync_waits = popcount(sync_waiters)
         /\ 0 <= sync_waits
         /\ sync_waits <= max_slots
    /\ \A m \in Modules : sync_call[m].error # "internal_failure"

\* Every module of the crate has declared SYNCH_WAIT=1.
C5_Witness ==
    /\ SyncQuiescent
    /\ \A m \in Modules : sync_waiters[m]
    /\ sync_waits = NumModules

\* C6: sync_wait_valid() succeeds iff all modules of the crate agree on
\* SYNCH_WAIT, that is no module has SYNCH_WAIT=1 or the number of modules
\* with SYNCH_WAIT=1 equals the number of modules in the crate.
C6_ValidIffAllAgree ==
    [][SyncWaitValid /\ SyncQuiescent =>
         (sync_valid' = "success"
            <=> popcount(sync_waiters) \in {0, NumModules})]_vars

\* C7: whenever at least one but not every module of the crate has declared
\* SYNCH_WAIT=1, sync_wait_valid() fails with module_invalid_operation.
C7_PartialFails ==
    [][/\ SyncWaitValid
       /\ SyncQuiescent
       /\ popcount(sync_waiters) > 0
       /\ popcount(sync_waiters) < NumModules
       => sync_valid' = "module_invalid_operation"]_vars

\* sync_wait_valid has failed while module 0 has SYNCH_WAIT=1 and another
\* module has not.
C7_Witness ==
    /\ SyncQuiescent
    /\ sync_valid = "module_invalid_operation"
    /\ sync_waiters[0]
    /\ \E m \in Modules : ~sync_waiters[m]

\* ========================================================================
\* Properties of the buffer pool (SpecPool)
\* ========================================================================
\* Handles in flight: issued by request and not yet back in the free list.
InFlight == {b \in BufIds : handle[b] # "none"}

\* No handle release is in progress.
PoolQuiescent == \A b \in BufIds : handle[b] # "releasing"

\* C8: for a pool created with N buffers, request() succeeds iff at least
\* one buffer is available, which is iff fewer than N handles are in flight:
\* N requests with no release succeed and the next one fails with
\* buffer_pool_empty and leaves the pool unchanged; once a handle has been
\* released the next request succeeds.  A successful request hands out the
\* front of the free list.
C8_RequestIffAvailable ==
    [][PoolRequest =>
         /\ (pool_result'.code = "success") <=> (pool_count > 0)
         /\ (pool_result'.code = "success")
               <=> (requests_issued - releases_completed < pool_number)
         /\ (pool_result'.code # "success") =>
               /\ pool_result'.code = "buffer_pool_empty"
               /\ UNCHANGED <<pool_number, pool_size, pool_count,
                              pool_buffers, buf_data, handle>>
         /\ (pool_result'.code = "success") =>
               /\ pool_result'.buf = Head(pool_buffers)
               /\ handle[pool_result'.buf] = "none"
               /\ handle'[pool_result'.buf] = "held"
               /\ pool_count' = pool_count - 1]_vars

\* With N = MaxBuffers, N requests in a row succeeded and the next failed.
C8_Witness ==
    /\ pool_number = MaxBuffers
    /\ requests_issued = MaxBuffers
    /\ releases_completed = 0
    /\ pool_result = PoolResult("request", "buffer_pool_empty", 0)

\* C9: for a created pool of size N, whenever no release is in progress,
\* the available count plus the number of handles in flight is N, that is
\* requests_issued - releases_completed = N - available; the available
\* count always equals the length of the free list.
C9_PoolConservation ==
    /\ pool_count = Len(pool_buffers)
    /\ PoolQuiescent =>
         /\ pool_count + Cardinality(InFlight) = pool_number
         /\ requests_issued - releases_completed = pool_number - pool_count

\* At rest with handles in flight after handles have been released.
C9_Witness ==
    /\ PoolQuiescent
    /\ pool_number = MaxBuffers
    /\ releases_completed >= 1
    /\ Cardinality(InFlight) >= 2
    /\ pool_count >= 1

\* C10: create(N, C) on a populated pool (number # 0) fails with
\* buffer_pool_not_empty and leaves number, size, available count and free
\* list unchanged; on an unpopulated pool it yields N available buffers,
\* all distinct and empty.
C10_CreateOnce ==
    [][\A n \in 0 .. MaxBuffers : \A c \in 1 .. MaxCapacity :
         PoolCreate(n, c) =>
           IF pool_number # 0
           THEN /\ pool_result' = PoolResult("create", "buffer_pool_not_empty", 0)
                /\ UNCHANGED <<pool_number, pool_size, pool_count,
                               pool_buffers>>
           ELSE /\ pool_result' = PoolResult("create", "success", 0)
                /\ pool_number' = n
                /\ pool_size' = c
                /\ pool_count' = n
                /\ Len(pool_buffers') = n
                /\ \A i, j \in 1 .. n :
                     i # j => pool_buffers'[i] # pool_buffers'[j]
                /\ \A i \in 1 .. n : buf_data'[pool_buffers'[i]] = <<>>]_vars

\* A create on a populated pool with a handle in flight has failed.
C10_Witness ==
    /\ pool_result = PoolResult("create", "buffer_pool_not_empty", 0)
    /\ pool_number = MaxBuffers
    /\ pool_count < pool_number

\* C11: destroy() fails with buffer_pool_busy whenever at least one buffer
\* handle is still in flight and leaves the pool unchanged; it succeeds, and
\* empties the pool, only when all N buffers have been returned.
C11_DestroyBusy ==
    [][PoolDestroy =>
         IF InFlight # {}
         THEN /\ pool_result' = PoolResult("destroy", "buffer_pool_busy", 0)
              /\ UNCHANGED <<pool_number, pool_size, pool_count,
                             pool_buffers, buf_data, handle>>
         ELSE /\ pool_result' = PoolResult("destroy", "success", 0)
              /\ pool_number' = 0
              /\ pool_count' = 0
              /\ pool_buffers' = <<>>]_vars

\* A destroy has failed as busy with a handle in flight.
C11_Witness ==
    /\ pool_result = PoolResult("destroy", "buffer_pool_busy", 0)
    /\ InFlight # {}
    /\ pool_number = MaxBuffers
    /\ pool_count = pool_number - Cardinality(InFlight)

\* The pool as pool::create(n, c) leaves a newly constructed pool.
FreshPool(n, c) ==
    /\ pool_number = n
    /\ pool_size = c
    /\ pool_count = n
    /\ Len(pool_buffers) = n
    /\ \A i, j \in 1 .. n : i # j => pool_buffers[i] # pool_buffers[j]
    /\ \A i \in 1 .. n : buf_data[pool_buffers[i]] = <<>>
    /\ InFlight = {}

\* C12: for a pool with all buffers returned, destroy() followed by
\* create(N, C) yields the state of a freshly created pool: number = N,
\* size = C, available = N and a free list of N empty buffers.
C12_DestroyCreate ==
    [][\A n \in 0 .. MaxBuffers : \A c \in 1 .. MaxCapacity :
         /\ pool_result = PoolResult("destroy", "success", 0)
         /\ PoolCreate(n, c)
         => FreshPool(n, c)']_vars

\* A pool that has issued handles was destroyed and created again.
C12_Witness ==
    /\ pool_result = PoolResult("create", "success", 0)
    /\ requests_issued > 0
    /\ releases_completed = requests_issued
    /\ FreshPool(MaxBuffers, MaxCapacity)

\* C13: releasing a handle returns the buffer with its logical length
\* cleared: every buffer of the free list is empty and every handle
\* returned by request() has size 0.
C13_RequestedBufferEmpty ==
    /\ [](\A i \in 1 .. Len(pool_buffers) : buf_data[pool_buffers[i]] = <<>>)
    /\ [][PoolRequest /\ pool_result'.code = "success" =>
            buf_data'[pool_result'.buf] = <<>>]_vars

\* A request has handed out a buffer again after releases.
C13_Witness ==
    /\ pool_result.op = "request"
    /\ pool_result.code = "success"
    /\ pool_number = 1
    /\ requests_issued >= 2
    /\ handle[pool_result.buf] = "held"
    /\ buf_data[pool_result.buf] = <<>>

\* ========================================================================
\* Properties of the buffer queue (SpecQueue)
\* ========================================================================

\* The words a list of buffers holds, first buffer first.
RECURSIVE words_of(_, _)
words_of(buffers, data) ==
    IF buffers = <<>> THEN <<>>
    ELSE data[Head(buffers)] \o words_of(Tail(buffers), data)

\* The words held by the buffers in front of the k-th queued buffer.
words_before(k) == words_held(SubSeq(queue_buffers, 1, k - 1), buf_data)

\* C14: between operations queue.size() is the sum of the sizes of the
\* buffers the queue holds and queue.count() is the number of those buffers.
C14_CountersMatch ==
    ~QueueUndefined =>
       /\ queue_size = words_held(queue_buffers, buf_data)
       /\ queue_count = Len(queue_buffers)

\* C15: queue.copy(to, count) with count <= size() delivers the next count
\* words of the queue in FIFO order and reduces size() by count.
C15_CopyFifo ==
    [][\A n \in 0 .. MaxCopy :
         QueueCopyPtr(n) /\ n <= queue_size =>
            /\ n <= Len(words_of(queue_buffers, buf_data))
            /\ queue_result'.to
                 = SubSeq(words_of(queue_buffers, buf_data), 1, n)
            /\ queue_size' = queue_size - n]_vars

\* C16: a copy that ends inside a buffer leaves that buffer at the front of
\* the queue holding its words that were not copied, in order.
C16_PartialStaysAtFront ==
    [][\A n \in 0 .. MaxCopy : \A k \in 1 .. Len(queue_buffers) :
         /\ QueueCopyPtr(n)
         /\ words_before(k) < n
         /\ n < words_before(k + 1)
         => /\ queue_buffers' = SubSeq(queue_buffers, k, Len(queue_buffers))
            /\ buf_data'[queue_buffers[k]]
                 = SubSeq(buf_data[queue_buffers[k]], n - words_before(k) + 1,
                          Len(buf_data[queue_buffers[k]]))]_vars

\* C17: queue.copy(to, count) with count > size() fails with
\* buffer_pool_not_enough and changes neither the queue nor the destination.
C17_CopyNotEnough ==
    [][\A n \in 0 .. MaxCopy :
         QueueCopyPtr(n) /\ n > queue_size =>
            /\ queue_result'.code = "buffer_pool_not_enough"
            /\ queue_result'.to = zeroed(n)
            /\ UNCHANGED <<queue_buffers, queue_size, queue_count,
                           buf_data, handle, pool_buffers, pool_count>>]_vars

C17_Witness ==
    /\ queue_result.op = "copy"
    /\ queue_result.code = "buffer_pool_not_enough"
    /\ queue_result.count > queue_size
    /\ queue_buffers # <<>>

\* C18: compact() never changes size(), and a compact() of a queue that
\* has just been compacted changes nothing.
C18_CompactIdempotent ==
    [][QueueCompact =>
         /\ queue_size' = queue_size
         /\ LET again == compact(queue_buffers', buf_data', queue_count',
                                 pool_size')
            IN /\ again.buffers = queue_buffers'
               /\ again.data = buf_data'
               /\ again.count = queue_count'
               /\ again.erased = <<>>
         /\ queue_result.op = "compact" =>
              UNCHANGED <<queue_buffers, queue_count, buf_data, handle,
                          pool_buffers, pool_count>>]_vars

\* A compact() has merged words of two buffers into the front buffer.
C18_Witness ==
    /\ queue_result.op = "compact"
    /\ queue_buffers # <<>>
    /\ \E i, j \in 1 .. Len(buf_data[Head(queue_buffers)]) :
         buf_data[Head(queue_buffers)][i] \div 256
           # buf_data[Head(queue_buffers)][j] \div 256
    /\ queue_size = words_held(queue_buffers, buf_data)

\* C37: compact() keeps the words of the queue and their order, leaves no
\* buffer with more words than its capacity, and leaves every buffer but
\* the last one full.
C37_CompactPreservesData ==
    [][QueueCompact =>
         /\ words_of(queue_buffers', buf_data')
              = words_of(queue_buffers, buf_data)
         /\ \A k \in 1 .. Len(queue_buffers') :
              Len(buf_data'[queue_buffers'[k]]) <= pool_size
         /\ \A k \in 1 .. Len(queue_buffers') - 1 :
              Len(buf_data'[queue_buffers'[k]]) = pool_size]_vars

\* A compact() has filled the front buffer with words of the buffer behind
\* it, which stays queued with the words that did not fit.
C37_Witness ==
    /\ queue_result.op = "compact"
    /\ Len(queue_buffers) >= 2
    /\ Len(buf_data[queue_buffers[1]]) = pool_size
    /\ buf_data[queue_buffers[2]] # <<>>
    /\ \E i \in 1 .. pool_size :
         buf_data[queue_buffers[1]][i] \div 256
           = buf_data[queue_buffers[2]][1] \div 256

\* C38: count() and size() are never below zero, and every pop() has
\* returned a buffer that was pushed, also a pop() of an empty queue.
C38_NoUnderflow ==
    /\ queue_size >= 0
    /\ queue_count >= 0
    /\ queue_result.op = "pop" => queue_result.code = "success"

\* C19: flush() leaves the queue with no buffer, count() = 0 and size() = 0,
\* and every buffer it held is back in the pool.
C19_FlushEmpties ==
    [][QueueFlush =>
         /\ queue_buffers' = <<>>
         /\ queue_count' = 0
         /\ queue_size' = 0
         /\ \A b \in range_of(queue_buffers, 1, Len(queue_buffers)) :
              /\ handle'[b] = "none"
              /\ b \in range_of(pool_buffers', 1, Len(pool_buffers'))]_vars

\* ========================================================================
\* Properties of module_threads (SpecThreads)
\* ========================================================================

\* C20: an error leaves module_threads only when every worker thread has
\* finished and has been joined, whether the worker failed with a pixie
\* error or with any other exception.
C20_ThrowAfterJoin ==
    mt_pc \in {"thrown", "escaped"} =>
       \A w \in Workers : mt_worker[w] = "finished" /\ mt_joined[w]

\* C33: when module_threads is left, by return or by exception, every
\* worker's promise has been fulfilled, every future has been read and
\* every thread has been joined.
C33_LeftWithAllJoined ==
    mt_pc \in {"returned", "thrown", "escaped"} =>
       \A w \in Workers :
          mt_promise[w] # "none" /\ ~mt_future_valid[w] /\ mt_joined[w]

\* ========================================================================
\* Properties of the list-mode worker (SpecWorker)
\* ========================================================================

\* C21: once the worker's flag `running` has been cleared from outside, the
\* worker leaves its poll loop at its next test of the loop condition, even
\* though the deadline has not elapsed.
C21_StopLeavesLoop ==
    [][LwLoopTest /\ ~lw_running => lw_pc' = "end"]_vars

\* C22: a run-task worker issues start_listmode once, before its first
\* read_list_mode; a worker that is not a run task never issues
\* start_listmode or run_end.
C22_StartOnce ==
    /\ [](lw_pc # "constructed" /\ ~lw_run_task =>
            lw_calls.start = 0 /\ lw_calls.run_end = 0)
    /\ [](/\ lw_pc \in {"loop", "read", "end", "drain", "check", "done",
                         "failed_check", "failed_start"}
          /\ lw_run_task
          => lw_calls.start = 1)
    /\ [][lw_calls'.start # lw_calls.start =>
            lw_calls.read = 0 /\ lw_calls.start = 0]_vars

C22_Witness ==
    /\ lw_pc = "done"
    /\ lw_run_task
    /\ lw_calls.start = 1
    /\ lw_calls.read >= 2
    /\ lw_calls.run_end = 1

\* C23: a worker that has left its loop makes a final read of the FIFO and
\* checks the run statistics; after a mismatch the worker's result is the
\* error code module_invalid_operation.
C23_ExitChecks ==
    lw_pc \in {"done", "failed_check"} =>
       /\ lw_calls.drain = 1
       /\ lw_stats # "unread"
       /\ lw_result = IF stats_mismatch(lw_stats)
                      THEN "module_invalid_operation" ELSE "success"

\* C24: total is the number of words the worker has written to its file,
\* and a read_list_mode that returns no word changes neither.
C24_TotalIsWritten ==
    /\ [](lw_total = lw_written)
    /\ [][lw_calls'.empty # lw_calls.empty =>
            UNCHANGED <<lw_total, lw_written>>]_vars

C24_Witness ==
    /\ lw_pc = "done"
    /\ lw_calls.empty >= 1
    /\ lw_calls.drain = 1
    /\ lw_calls.read >= 3
    /\ lw_total = lw_written
    /\ lw_total > MaxRead

\* C34: a worker that has finished after a start_listmode that succeeded
\* has called run_end, whichever way it left worker().
C34_StartThenRunEnd ==
    (/\ lw_pc \in {"done", "failed_check", "failed_read"}
     /\ lw_calls.start = 1)
       => lw_calls.run_end = 1

\* ========================================================================
\* Properties of the error codes (SpecError)
\* ========================================================================

\* C25: the value main returns is 0 when nothing was thrown and otherwise
\* the negated result code: of the pixie error's code, or of unknown_error
\* (-900) for any other exception.
C25_ExitCodeNegated ==
    er_exit.how = "returned" =>
       er_exit.value = IF er_thrown = "none" THEN 0
                       ELSE IF er_thrown \in Codes
                            THEN 0 - api_result(er_thrown)
                            ELSE 0 - 900

\* The result codes of the groups of the taxonomy.
group_ranges ==
    [crate |-> 100 .. 102, module |-> 200 .. 219, channel |-> 300 .. 306,
     device |-> 500 .. 511, config |-> 600 .. 602, file |-> 700 .. 704,
     system |-> 800 .. 807, catch_all |-> 900 .. 990]

\* C26: every error code has one entry of the result table, its result lies
\* in the range of its group, two codes looked up one after the other have
\* different results, and the result is that of bad_error_code only for
\* bad_error_code itself or for a value that is no error code.
C26_ResultCodes ==
    /\ [](er_code \in Codes =>
            /\ Cardinality({i \in 1 .. Len(result_table) :
                              result_table[i][1] = er_code}) = 1
            /\ \A g \in DOMAIN code_groups :
                 er_code \in code_groups[g] => er_result \in group_ranges[g]
            /\ er_result = api_result("bad_error_code") =>
                 er_code = "bad_error_code")
    /\ [](er_code \in NotCodes => er_result = api_result("bad_error_code"))
    /\ [][\A type \in Codes :
            ApiResult(type) /\ er_code \in Codes /\ type # er_code =>
               er_result' # er_result]_vars

\* ========================================================================
\* Properties of the firmware registry (SpecFirmware)
\* ========================================================================

\* The triple that identifies a firmware.
triple(fw) == <<fw.version, fw.mod_revision, fw.device>>

\* The firmwares a registry holds, with their places.
entries(firmwares) ==
    {<<r, i>> : r \in Revisions, i \in 1 .. MaxFirmwares + 1}
      \cap {e \in Revisions \X (1 .. MaxFirmwares + 1) :
              e[2] <= Len(firmwares[e[1]])}

\* C27: after add(R, f), check(R, f) is true for f and for every firmware
\* with f's triple; an add of a firmware whose triple is in R fails with
\* module_invalid_firmware and leaves R unchanged; R never holds two
\* firmwares with equal triples.
C27_TripleUnique ==
    /\ [][\A f \in Firmwares :
            FwAdd(f) =>
               /\ \A g \in Firmwares :
                    triple(g) = triple(f) => check(fw_registry', g)
               /\ (\E g \in Firmwares :
                     triple(g) = triple(f) /\ check(fw_registry, g))
                  => /\ fw_result'.code = "module_invalid_firmware"
                     /\ UNCHANGED fw_registry
               /\ LET again == add(fw_registry', f)
                  IN /\ again.code = "module_invalid_firmware"
                     /\ again.firmwares = fw_registry']_vars
    /\ [](\A a, b \in entries(fw_registry) :
            a # b => triple(fw_registry[a[1]][a[2]])
                       # triple(fw_registry[b[1]][b[2]]))

\* An add of a firmware that differs from a registered one only in its file
\* name and slots has been refused.
C27_Witness ==
    /\ fw_result.op = "add"
    /\ fw_result.code = "module_invalid_firmware"
    /\ registered(fw_registry, Revisions) = 1

\* C28: find returns a firmware of the device whose slot list has the slot
\* whenever the module's firmwares hold one, wherever the defaults are;
\* otherwise the first firmware of the device with no slot listed;
\* otherwise it fails with file_not_found.
C28_FindPrefersSlot ==
    [][\A r \in Revisions : \A d \in Devices : \A sl \in Slots :
         FwFind(r, d, sl) =>
            LET fws == fw_registry[r]
                has_slot(i) == \E k \in 1 .. Len(fws[i].slot) :
                                  fws[i].slot[k] = sl
                listed == {i \in 1 .. Len(fws) :
                             fws[i].device = d /\ has_slot(i)}
                defaults == {i \in 1 .. Len(fws) :
                               fws[i].device = d /\ fws[i].slot = <<>>}
            IN IF listed # {}
               THEN /\ fw_result'.code = "success"
                    /\ \E i \in listed : fw_result'.found = fws[i]
               ELSE IF defaults # {}
                    THEN /\ fw_result'.code = "success"
                         /\ \E i \in defaults :
                              /\ fw_result'.found = fws[i]
                              /\ \A j \in defaults : i <= j
                    ELSE fw_result'.code = "file_not_found"]_vars

\* find has passed over a default that comes first and returned the
\* firmware listed for the slot.
C28_Witness ==
    /\ fw_result.op = "find"
    /\ fw_result.code = "success"
    /\ fw_result.found.slot # <<>>
    /\ \E r \in Revisions :
         /\ Len(fw_registry[r]) = 2
         /\ fw_registry[r][1].device = fw_result.found.device
         /\ fw_registry[r][1].slot = <<>>
         /\ fw_registry[r][2] = fw_result.found

\* ========================================================================
\* Properties of the crate (SpecCrate)
\* ========================================================================

\* The devices crate::initialize discovers: it asks the bus for the devices
\* 0 .. num_modules - 1.
discovered(num_modules, devices) ==
    Cardinality({k \in 0 .. (num_modules - 1) : pci_find_module(k, devices)})

\* C29: the first initialize() of a crate succeeds when the bus holds
\* num_modules devices, leaving one module for each of them, and fails when
\* it holds fewer.
C29_InitializeCounts ==
    [][\A devices \in 0 .. NumModules + 1 :
         CrateInitialize(devices) /\ cr_modules = <<>> =>
            IF discovered(cr_num_modules, devices) = cr_num_modules
            THEN /\ cr_result' = "success"
                 /\ cr_modules' = [i \in 1 .. cr_num_modules |-> i - 1]
            ELSE cr_result' # "success"]_vars

\* ========================================================================
\* Properties of the Com-FPGA controller (SpecComms)
\* ========================================================================

\* C30: a caller is inside ctrl.load or ctrl.done only while its guard holds
\* the module's bus lock; a caller that has left boot or done, by return or
\* by exception, does not hold it; and no caller makes a register access
\* while another caller's call has made some of its accesses.
C30_BusGuarded ==
    /\ [](\A c \in Callers : co_pc[c] = "ctrl" => bus_owner = c)
    /\ [](\A c \in Callers : co_pc[c] # "ctrl" => bus_owner # c)
    /\ [][\A c \in Callers :
            co_accesses'[c] > co_accesses[c] =>
               \A other \in Callers \ {c} :
                  co_pc[other] # "ctrl" /\ co_accesses[other] = 0]_vars

\* A load has failed part way and another caller then holds the bus lock
\* and makes its register accesses.
C30_Witness ==
    \E c, other \in Callers :
       /\ c # other
       /\ co_op[c] = "boot"
       /\ co_result[c] = "thrown"
       /\ co_pc[c] = "guard"
       /\ bus_owner = other
       /\ co_accesses[other] >= 1

\* ========================================================================
\* Properties of the list-mode run drivers (SpecRun)
\* ========================================================================

\* C31: in every run driver, every run status check of the director module
\* that can end the collection (the first run_status read of the JSON
\* example and the check at the end of each pass of the collection loop) is
\* made after the driver has waited for the DSP since the start of the run.
C31_WaitBeforeStatusCheck ==
    [][(rd_pc \in {"first_status", "director_check"} /\ rd_pc' # rd_pc)
          => rd_waited]_vars

\* C32: when the finalize loop of the examples ends with
\* all_modules_finished set, every module reported an inactive run in that
\* sweep; and the function returns true only in that case.
C32_FinalizedMeansAllInactive ==
    /\ (rd_pc = "after_finalize" /\ rd_all_finished)
          => \A m \in Modules : rd_sweep[m] = "inactive"
    /\ (rd_pc = "returned" /\ rd_result = "true"
           /\ rd_driver \in {"json", "legacy"})
          => \A m \in Modules : rd_sweep[m] = "inactive"

\* ========================================================================
\* Properties of the FIFO test worker (SpecFifo)
\* ========================================================================

\* C35: when the FIFO test worker has left worker(), it has called
\* end_test exactly once, and has_error is set exactly when it left with an
\* exception.
C35_EndTestOnce ==
    tf_pc \in {"returned", "thrown"} =>
       /\ tf_calls.end_test = 1
       /\ tf_has_error <=> tf_pc = "thrown"

\* ========================================================================
\* Properties of process_commands (SpecCommand)
\* ========================================================================

\* The boot requirement of the command of a called handler.
boot_of(name) == (CHOOSE cmd \in commands : cmd.name = name).boot

\* C36: initialize and probe are each called at most once; when the handler
\* of a command that requires "init,probe" is called both have been called
\* and have returned; and a command that requires "none" adds no call.
C36_BootBeforeHandler ==
    /\ cp_calls.initialize <= 1
    /\ cp_calls.probe <= 1
    /\ \A i \in DOMAIN cp_log :
          IF boot_of(cp_log[i].cmd) = init_probe
            THEN cp_log[i].initialize = 1 /\ cp_log[i].probe = 1
            ELSE /\ cp_log[i].initialize =
                       (IF i = 1 THEN 0 ELSE cp_log[i - 1].initialize)
                 /\ cp_log[i].probe =
                       (IF i = 1 THEN 0 ELSE cp_log[i - 1].probe)

\* ========================================================================
\* Properties of the copy filter masks (SpecMask)
\* ========================================================================

\* The mask has exactly one bit set.
single_bit(mask) == mask > 0 /\ bit_and(mask, mask - 1) = 0

\* C39: a copy made with all_mask selects each of the 13 filter groups,
\* that is, all_mask has a bit in common with every group mask; and the
\* group masks are single bits, no two of them the same.
C39_AllMaskSelectsAll ==
    /\ Cardinality(FilterGroups) = 13
    /\ (cf_copied /\ cf_mask = all_mask) => cf_selected = FilterGroups
    /\ \A g \in FilterGroups : single_bit(group_masks[g])
    /\ \A g, h \in FilterGroups :
          g # h => bit_and(group_masks[g], group_masks[h]) = 0

\* ========================================================================
\* Specifications
\* ========================================================================
\* The state after construction: backplane::role::role(label_) with
\* leader(-1), backplane::backplane() with sync_waits(0) and
\* sync_waiters({false}), pool::pool() with number(0), size(0), count_(0)
\* and no buffers, and queue::queue() with size_(0) and count_(0).  No
\* thread has called yet.  module_threads is at its entry with
\* first_error success, finished 0 and no thread started.  A list_save_worker
\* is constructed (seconds(0), running(false), total(0)).  main has not
\* returned and no result code has been looked up.  The firmware registry
\* is empty and no crate object exists.  The module's bus lock is free
\* and no thread is in a call of the Com-FPGA controller.  No
\* run driver has started a run.  A test_fifo_worker is constructed
\* (length(0), total(0), has_error(false)).  process_commands is at its
\* entry (init_done and probe_done false).  No copy filter mask has been
\* chosen.  `labels` are the
\* roles the role instance of the behaviour may be.
Constructed(labels) ==
    /\ label \in labels
    /\ leader = released
    /\ call = [m \in Modules |-> NoCall]
    /\ holds = [m \in Modules |-> FALSE]
    /\ sync_waits = 0
    /\ sync_waiters = [i \in 0 .. (max_slots - 1) |-> FALSE]
    /\ sync_call = [m \in Modules |-> SyncIdle]
    /\ sync_valid = "none"
    /\ pool_number = 0
    /\ pool_size = 0
    /\ pool_count = 0
    /\ pool_buffers = <<>>
    /\ buf_data = [b \in BufIds |-> <<>>]
    /\ handle = [b \in BufIds |-> "none"]
    /\ pool_result = PoolResult("none", "success", 0)
    /\ requests_issued = 0
    /\ releases_completed = 0
    /\ queue_buffers = <<>>
    /\ queue_size = 0
    /\ queue_count = 0
    /\ queue_result = QueueResult("none", "success", 0, <<>>)
    /\ mt_pc = "spawn"
    /\ mt_t = 1
    /\ mt_finished = 0
    /\ mt_first_error = "success"
    /\ mt_worker = [w \in Workers |-> "unstarted"]
    /\ mt_promise = [w \in Workers |-> "none"]
    /\ mt_future_valid = [w \in Workers |-> FALSE]
    /\ mt_joined = [w \in Workers |-> FALSE]
    /\ lw_pc = "constructed"
    /\ lw_run_task = "unset"
    /\ lw_seconds = 0
    /\ lw_elapsed = 0
    /\ lw_running = FALSE
    /\ lw_total = 0
    /\ lw_written = 0
    /\ lw_calls = NoCalls
    /\ lw_stats = "unread"
    /\ lw_result = "none"
    /\ er_code = "none"
    /\ er_result = 0
    /\ er_thrown = "none"
    /\ er_exit = Running
    /\ fw_registry = [r \in Revisions |-> <<>>]
    /\ fw_result = FwResult("none", "success", FALSE, NoFirmware)
    /\ cr_state = "none"
    /\ cr_num_modules = 0
    /\ cr_modules = <<>>
    /\ cr_devices = 0
    /\ cr_result = "none"
    /\ bus_owner = 0
    /\ co_pc = [c \in Callers |-> "idle"]
    /\ co_op = [c \in Callers |-> "none"]
    /\ co_accesses = [c \in Callers |-> 0]
    /\ co_result = [c \in Callers |-> "none"]
    /\ rd_driver = "none"
    /\ rd_pc = "entry"
    /\ rd_status = [m \in Modules |-> "off"]
    /\ rd_waited = FALSE
    /\ rd_run_status = FALSE
    /\ rd_polls = 0
    /\ rd_counter = 0
    /\ rd_k = 0
    /\ rd_sweep = [m \in Modules |-> "unread"]
    /\ rd_all_finished = FALSE
    /\ rd_result = "running"
    /\ tf_pc = "constructed"
    /\ tf_length = 0
    /\ tf_total = 0
    /\ tf_calls = NoTestCalls
    /\ tf_has_error = FALSE
    /\ cp_state = "running"
    /\ cp_init_done = FALSE
    /\ cp_probe_done = FALSE
    /\ cp_calls = [initialize |-> 0, probe |-> 0]
    /\ cp_log = <<>>
    /\ cf_mask = 0
    /\ cf_copied = FALSE
    /\ cf_selected = {}

\* The role specification follows any of the three roles; the role plays no
\* part in the other two, which keep the run role.
InitRole == Constructed(Roles)

Init == Constructed({"run"})

SpecRole == InitRole /\ [][RoleNext]_vars

SpecSync == Init /\ [][SyncNext]_vars

SpecPool == Init /\ [][PoolNext]_vars

SpecQueue == Init /\ [][QueueNext]_vars

SpecThreads == Init /\ [][ThreadsNext]_vars

SpecWorker == Init /\ [][WorkerNext]_vars

SpecError == Init /\ [][ErrorNext]_vars

SpecFirmware == Init /\ [][FirmwareNext]_vars

SpecCrate == Init /\ [][CrateNext]_vars

SpecComms == Init /\ [][CommsNext]_vars

SpecRun == Init /\ [][RunNext]_vars

SpecFifo == Init /\ [][FifoNext]_vars

SpecCommand == Init /\ [][CommandNext]_vars

SpecMask == Init /\ [][MaskNext]_vars

====
